---- MODULE Spec2Model ----
(***************************************************************************)
(* TruthChain backend: the read-through verification resolver              *)
(* (VerificationController.verifyTweet), the verification cache and the    *)
(* Registration store it reads, the registration handlers that fill the    *)
(* store, and the multi-version Contract Gateway (BlockchainService).      *)
(*                                                                         *)
(* Time is in milliseconds, as in the code (Date.now()).  A request is a   *)
(* sequence of steps, one per awaited store / ledger call, so that         *)
(* concurrent requests interleave between their awaits.                    *)
(***************************************************************************)
EXTENDS Integers, Sequences, FiniteSets, TLC

\* ------------------------------------------------------------------ bounds
MaxExtraItems == 1     \* batch bodies up to this many items over the limit
PopSize == 202         \* Registration documents of the large collection
MaxManualSweeps == 1   \* triggerManualValidation calls in one behaviour
MaxOverLimit == 2      \* requests of one key beyond the limiter's max in one window
MaxOtherKey == 1       \* requests of the second key per limiter and window
MaxWindows == 1        \* rate-limit windows that pass in one behaviour
MaxCtCalls == 4        \* contract call transactions in one behaviour
MaxHeight == 2         \* stacks-block-height reached in one behaviour
MaxProbes == 2         \* verifyTweet requests by form in one behaviour
MaxLen == 3            \* characters of a content string of SpecHash
MaxCronCalls == 4      \* startBNSValidationCron / stopBNSValidationCron calls
MaxSweeps == 2         \* validateStaleRegistrations runs in one behaviour
MaxDays == 2           \* days that pass in one behaviour of SpecBns
MaxTicks == 1          \* the clock advances at most this many times
TickMs == 3600000      \* one clock step: the length of the cache window
MaxRequests == 2       \* verifyTweet requests started in one behaviour
MaxExtCalls == 2       \* outbound calls one request or one sweep awaits in turn
MaxChallenges == 1     \* challenges issued in one behaviour of SpecAuth
MaxSessions == 2       \* sessions created in one behaviour of SpecAuth
MaxAuthTicks == 2      \* steps of the clock of SpecAuth
MaxConfirms == 3       \* confirmRegistration requests in one behaviour of SpecStats
MaxRegOps == 2         \* registration-handler requests in one behaviour
MaxChainRegs == 1      \* on-chain registrations in one behaviour of Spec
GwMaxChainRegs == 3    \* on-chain registrations in one behaviour of SpecGateway
RegBlock == 7          \* stacks-block-height of the on-chain registrations

\* --------------------------------------------------------- program values
CacheTtlMs == 3600000  \* new Date(Date.now() + 3600000)
MaxBatchItems == 10    \* items.length > 10
SweepLimit == 100      \* .limit(100)
GlobalMax == 100       \* RATE_LIMIT_MAX_REQUESTS default
AuthMax == 50          \* authLimiter max
RateWindowMs == 900000 \* 15 * 60 * 1000
DigestLen == 32        \* bytes of a SHA-256 digest
ValidationIntervalMs == 86400000  \* 24 * 60 * 60 * 1000
Million == 1000000      \* 1000000000000 = Million * Million (timestamp threshold)
ChallengeExpirationMs == 300000   \* 5 * 60 * 1000
SessionExpirationMs == 14400000   \* 4 * 60 * 60 * 1000

Hashes == {"h1"}
Wallets == {"SP_P", "SP_Q"}
Slots == {1, 2}        \* requests that can be in flight at the same time
Versions == <<"v3", "v2", "v1">>
VersionSet == {"v3", "v2", "v1"}
Networks == {"mainnet", "testnet"}

Unset == -1            \* a numeric field that is undefined / not stored
NoStr == "absent"      \* a string field that is undefined / not stored

\* schema option uppercase: true (authorWallet): String.prototype.toUpperCase
ToUpper(s) ==
  IF s = "unknown" THEN "UNKNOWN"
  ELSE IF s = "alice.btc" THEN "ALICE.BTC"
  ELSE IF s = "bob.btc" THEN "BOB.BTC"
  ELSE s

\* a || b for numbers and dates: undefined and 0 are falsy
OrNum(x, d) == IF x = Unset \/ x = 0 THEN d ELSE x
\* a || '' for strings
OrStr(x, d) == IF x = NoStr \/ x = "" THEN d ELSE x

\* ------------------------------------------------------------------ ledger
NoRec == [kind |-> "none"]
Null == [kind |-> "null"]
Raise == [kind |-> "raise"]

\* content-registry entry written by register-content(-with-bns):
\* block-height and time-stamp are both stacks-block-height
ChainRec(w, id) ==
  [kind |-> "rec", author |-> w, blockHeight |-> RegBlock,
   timeStamp |-> RegBlock, registrationId |-> id]

RegisteredCount(ch, v) == Cardinality({h \in Hashes : ch[v][h] # NoRec})

\* outcomes of one fetchCallReadOnlyFunction + cvToJSON
ExOutcomes == {"ok", "throw"}
DetOutcomes == {"ok", "throw", "unsuccessful"}
CallOutcomes == [ex : ExOutcomes, det : DetOutcomes]
OutcomeMaps == [VersionSet -> CallOutcomes]


\* ------------------------------------------------------------- variables
VARIABLES
  now,       \* Date.now(), milliseconds
  network,   \* ContractConfig.network
  chain,     \* chain[v][h]: content-registry of contract version v
  cache,     \* documents of the verification_cache collection
  regs,      \* documents of the registrations collection
  req,       \* req[s]: the verifyTweet request in flight in slot s
  started,   \* verifyTweet requests started so far
  regOps,    \* registration-handler requests served so far
  gw         \* the last BlockchainService call: method, calls made, result

VARIABLES
  batch,     \* the batchVerify request being served
  bnsDocs,   \* the BNS fields of the Registration documents, by document
  registry,  \* registry[w]: the names the BNS registry lists for wallet w
  sweep,     \* the validateStaleRegistrations run in progress
  cron,      \* the BNS validation cron: validationTimer and the timers set
  sreg,      \* sreg[s]: the secureRegisterTweet request in slot s, await by await
  users,     \* users[w]: the User document of wallet w
  hsv        \* the HashService calls made on one pair of strings

\* the variables of the handlers outside the verification resolver
sideVars == <<batch, bnsDocs, registry, sweep, cron, sreg, users, hsv>>

VARIABLES
  probe,     \* the last verifyTweet request served whole, with its input form
  ct,        \* the truthchain contracts: data vars, maps, block height, last call
  rl,        \* the rate limiters' stores: hits and reset time per limiter and key
  pop        \* a large Registration collection under validateStaleRegistrations

\* the variables of the handlers and contracts modelled on their own
VARIABLES
  ext,       \* ext[t]: the outbound call a request or a sweep is waiting on
  auth,      \* the session and challenge maps of one deployment's process
  cr         \* the confirmRegistration requests served: their number, the last status

\* the variables of the outbound calls and of the session handlers
lateVars == <<ext, auth, cr>>

moreVars == <<probe, ct, rl, pop, lateVars>>

vars == <<now, network, chain, cache, regs, req, started, regOps, gw, sideVars, moreVars>>

\* ------------------------------------------- BlockchainService (Gateway)
BoolRes(b) == [kind |-> "bool", val |-> b]

\* try { fetchCallReadOnlyFunction('hash-exists'); cvToJSON } without the catch
HashExistsRaw(v, h, ch, o) ==
  IF o = "throw" THEN Raise ELSE BoolRes(ch[v][h] # NoRec)

\* the same call with the exception left to the caller
hashExistsOnContractNoCatch(v, h, ch, o) == HashExistsRaw(v, h, ch, o)

\* private hashExistsOnContract: jsonResult.value === true; catch -> false
hashExistsOnContract(v, h, ch, o) ==
  LET r == HashExistsRaw(v, h, ch, o)
  IN IF r.kind = "raise" THEN BoolRes(FALSE) ELSE r

\* public hashExists: the configured (primary) contract only
hashExists(h, ch, o) == hashExistsOnContract("v3", h, ch, o)

\* the record built from a successful verify-content answer
FullRecord(v, h, ch) ==
  [kind |-> "rec", author |-> ch[v][h].author, blockHeight |-> ch[v][h].blockHeight,
   timestamp |-> ch[v][h].timeStamp,
   registrationId |-> ch[v][h].registrationId]

\* author 'unknown', blockHeight 0, timestamp Date.now() / 1000, registrationId 0
DegradedRecord(t) ==
  [kind |-> "rec", author |-> "unknown", blockHeight |-> 0, timestamp |-> t \div 1000,
   registrationId |-> 0]

\* a failed detail fetch answered with null instead of the degraded record
verifyOnContractNoDegrade(v, h, ch, o, t) ==
  LET ex == hashExistsOnContract(v, h, ch, o.ex)
  IN IF ex.kind = "raise" \/ ~ex.val THEN Null
     ELSE IF o.det = "ok" THEN FullRecord(v, h, ch) ELSE Null

\* private verifyOnContract: existence first, then the detail fetch,
\* degraded record when the detail fetch throws or is unsuccessful
verifyOnContract(v, h, ch, o, t) ==
  LET ex == hashExistsOnContract(v, h, ch, o.ex)
  IN IF ex.kind = "raise" THEN Null
     ELSE IF ~ex.val THEN Null
     ELSE IF o.det = "ok" THEN FullRecord(v, h, ch)
     ELSE DegradedRecord(t)

\* the read-only calls one verifyOnContract makes, in order
CallsOf(v, h, ch, o) ==
  IF hashExistsOnContract(v, h, ch, o.ex).kind = "bool"
     /\ hashExistsOnContract(v, h, ch, o.ex).val
  THEN << [ver |-> v, fn |-> "hash-exists", outcome |-> o.ex],
          [ver |-> v, fn |-> "verify-content", outcome |-> o.det] >>
  ELSE << [ver |-> v, fn |-> "hash-exists", outcome |-> o.ex] >>

\* one verifyOnContract: its result and the read-only calls it made
RunOnContract(v, h, ch, o, t) ==
  [result |-> verifyOnContract(v, h, ch, o, t), calls |-> CallsOf(v, h, ch, o)]

\* the oldest version asked first
VerifyTweetComposeOldestFirst(net, run3, run2, run1) ==
  IF net = "mainnet" /\ run1.result # Null
  THEN [result |-> run1.result, calls |-> run1.calls]
  ELSE [result |-> run3.result, calls |-> run3.calls]

\* BlockchainService.verifyTweet over the runs of verifyOnContract on v3,
\* v2 and v1: v3 first; on mainnet v2 and then v1, each only when the newer
\* ones returned null (run2 and run1 are used only where the code calls them)
VerifyTweetCompose(net, run3, run2, run1) ==
  IF run3.result # Null THEN [result |-> run3.result, calls |-> run3.calls]
  ELSE IF net = "mainnet"
       THEN IF run2.result # Null
            THEN [result |-> run2.result, calls |-> run3.calls \o run2.calls]
            ELSE IF run1.result # Null
                 THEN [result |-> run1.result,
                       calls |-> run3.calls \o run2.calls \o run1.calls]
                 ELSE [result |-> Null,
                       calls |-> run3.calls \o run2.calls \o run1.calls]
       ELSE [result |-> Null, calls |-> run3.calls]

\* BlockchainService.verifyTweet under the call outcomes oc
VerifyTweetRun(h, ch, net, oc, t) ==
  VerifyTweetCompose(net, RunOnContract("v3", h, ch, oc["v3"], t),
                          RunOnContract("v2", h, ch, oc["v2"], t),
                          RunOnContract("v1", h, ch, oc["v1"], t))

verifyTweetGw(h, ch, net, oc, t) == VerifyTweetRun(h, ch, net, oc, t).result

\* the runs of one verifyOnContract over every outcome of its calls
VersionRuns(v, h, ch, t) == {RunOnContract(v, h, ch, o, t) : o \in CallOutcomes}

\* the runs of verifyTweet over every outcome of its calls
\* ( = {VerifyTweetRun(h, ch, net, oc, t) : oc \in OutcomeMaps} )
GatewayRuns(h, ch, net, t) ==
  {VerifyTweetCompose(net, a, b, c) :
     a \in VersionRuns("v3", h, ch, t), b \in VersionRuns("v2", h, ch, t),
     c \in VersionRuns("v1", h, ch, t)}

\* what the Gateway can answer for h, over every outcome of its calls
GatewayAnswers(h, ch, net, t) == {run.result : run \in GatewayRuns(h, ch, net, t)}

\* Testnet BlockchainService.hashExists: own try / catch -> false
testnetHashExists(h, ch, o) ==
  LET r == HashExistsRaw("v3", h, ch, o)
  IN IF r.kind = "raise" THEN BoolRes(FALSE) ELSE r

\* Testnet BlockchainService.verifyTweet: the configured contract only
testnetVerifyTweet(h, ch, o, t) ==
  LET ex == testnetHashExists(h, ch, o.ex)
  IN IF ex.kind = "raise" THEN Null
     ELSE IF ~ex.val THEN Null
     ELSE IF o.det = "ok" THEN FullRecord("v3", h, ch)
     ELSE DegradedRecord(t)

\* outcomes of makeContractCall and broadcastTransaction
MakeOutcomes == {"ok", "throw"}
BroadcastOutcomes == {"txid", "error", "throw"}

\* registerTweet (both services): {success:false, error} on a broadcast
\* error answer and on any exception, {success:true, txId} otherwise
registerTweet(mk, bc) ==
  IF mk = "throw" \/ bc = "throw"
  THEN [kind |-> "regres", success |-> FALSE, txId |-> NoStr, error |-> "exception-message"]
  ELSE IF bc = "error"
       THEN [kind |-> "regres", success |-> FALSE, txId |-> NoStr, error |-> "ledger-error"]
       ELSE [kind |-> "regres", success |-> TRUE, txId |-> "tx1", error |-> NoStr]

\* getContractStats (both services): cvToJSON(result), null on any exception
getContractStats(ch, o) ==
  IF o = "throw" THEN Null
  ELSE [kind |-> "json", total |-> RegisteredCount(ch, "v3")]

\* batchVerify (both services): cvToJSON(result), null on any exception
batchVerify(hs, ch, o) ==
  IF o = "throw" THEN Null
  ELSE [kind |-> "json", exists |-> {h \in hs : ch["v3"][h] # NoRec}]

\* ------------------------------------------------------------ the ledger
ChainRegCount == Cardinality({p \in VersionSet \X Hashes : chain[p[1]][p[2]] # NoRec})

\* register-content on contract version v by principal w, submitted with
\* the principal's own wallet: (err u100) when the hash is already there
LedgerRegister(v, h, w, max) ==
  /\ ChainRegCount < max
  /\ chain[v][h] = NoRec
  /\ chain' = [chain EXCEPT ![v][h] = ChainRec(w, RegisteredCount(chain, v) + 1)]
  /\ UNCHANGED <<now, network, cache, regs, req, started, regOps, gw, sideVars, moreVars>>

\* ------------------------------------------- SpecGateway: service calls
EmptyChain == [v \in VersionSet |-> [h \in Hashes |-> NoRec]]

\* ledger, at: the content-registries and the time when the call was made
NoCall ==
  [svc |-> "none", method |-> "none", h |-> "h1", ledger |-> EmptyChain, at |-> 0,
   calls |-> <<>>, result |-> Null]

GwFrame == UNCHANGED <<now, network, chain, cache, regs, req, started, regOps, sideVars, moreVars>>

\* every outcome of the read-only calls is possible; behaviours that differ
\* only in the outcome of a call that is never made are the same behaviour
GwVerifyTweet(h) ==
  /\ \E run \in GatewayRuns(h, chain, network, now) :
       gw' = [svc |-> "Mainnet", method |-> "verifyTweet", h |-> h, ledger |-> chain, at |-> now,
              calls |-> run.calls, result |-> run.result]
  /\ GwFrame

\* one private verifyOnContract call on contract version v
GwVerifyOnContract(v, h, o) ==
  /\ gw' = [svc |-> "Mainnet", method |-> "verifyOnContract", h |-> h, ledger |-> chain,
            at |-> now, calls |-> CallsOf(v, h, chain, o),
            result |-> verifyOnContract(v, h, chain, o, now)]
  /\ GwFrame

GwHashExists(h, o) ==
  /\ gw' = [svc |-> "Mainnet", method |-> "hashExists", h |-> h, ledger |-> chain, at |-> now,
            calls |-> << [ver |-> "v3", fn |-> "hash-exists", outcome |-> o] >>,
            result |-> hashExists(h, chain, o)]
  /\ GwFrame

GwTestnetVerifyTweet(h, o) ==
  /\ gw' = [svc |-> "Testnet", method |-> "verifyTweet", h |-> h, ledger |-> chain, at |-> now,
            calls |-> CallsOf("v3", h, chain, o),
            result |-> testnetVerifyTweet(h, chain, o, now)]
  /\ GwFrame

GwTestnetHashExists(h, o) ==
  /\ gw' = [svc |-> "Testnet", method |-> "hashExists", h |-> h, ledger |-> chain, at |-> now,
            calls |-> << [ver |-> "v3", fn |-> "hash-exists", outcome |-> o] >>,
            result |-> testnetHashExists(h, chain, o)]
  /\ GwFrame

\* registerTweet: a broadcast transaction runs register-content as the
\* key's principal w
GwRegisterTweet(svc, h, w, mk, bc) ==
  /\ gw' = [svc |-> svc, method |-> "registerTweet", h |-> h, ledger |-> chain, at |-> now,
            calls |-> IF mk = "throw"
                      THEN << [ver |-> "v3", fn |-> "makeContractCall", outcome |-> mk] >>
                      ELSE << [ver |-> "v3", fn |-> "makeContractCall", outcome |-> mk],
                              [ver |-> "v3", fn |-> "broadcastTransaction", outcome |-> bc] >>,
            result |-> registerTweet(mk, bc)]
  /\ IF mk = "ok" /\ bc = "txid" /\ chain["v3"][h] = NoRec /\ ChainRegCount < GwMaxChainRegs
     THEN chain' = [chain EXCEPT !["v3"][h] =
                      ChainRec(w, RegisteredCount(chain, "v3") + 1)]
     ELSE chain' = chain
  /\ UNCHANGED <<now, network, cache, regs, req, started, regOps, sideVars, moreVars>>

GwGetContractStats(svc, o) ==
  /\ gw' = [svc |-> svc, method |-> "getContractStats", h |-> "h1", ledger |-> chain, at |-> now,
            calls |-> << [ver |-> "v3", fn |-> "get-contract-stats", outcome |-> o] >>,
            result |-> getContractStats(chain, o)]
  /\ GwFrame

GwBatchVerify(svc, hs, o) ==
  /\ gw' = [svc |-> svc, method |-> "batchVerify", h |-> "h1", ledger |-> chain, at |-> now,
            calls |-> << [ver |-> "v3", fn |-> "batch-verify", outcome |-> o] >>,
            result |-> batchVerify(hs, chain, o)]
  /\ GwFrame


\* --------------------------------------- verification_cache collection
NoEntry == [kind |-> "none"]
NoData == [kind |-> "none"]

ResMissing == [kind |-> "missing"]     \* no result payload
ResNonBool == [kind |-> "nonbool"]     \* result.isRegistered is not a boolean
ResNeg == [kind |-> "neg"]             \* result: { isRegistered: false }

\* result: { isRegistered: true, ... }; the schema upper-cases authorWallet
ResPos(author, blockHeight, registrationDate, txId) ==
  [kind |-> "pos", authorWallet |-> ToUpper(author), blockHeight |-> blockHeight,
   registrationDate |-> registrationDate, txId |-> txId]

\* origin is history: which path wrote the result and what it answered
Entry(h, result, expiresAt, origin) ==
  [kind |-> "entry", contentHash |-> h, result |-> result,
   expiresAt |-> expiresAt, origin |-> origin]

EntriesOf(c, h) == {e \in c : e.contentHash = h}

\* findOne({ contentHash, expiresAt: { $gt: new Date() } })
LiveEntries(c, h, t) == {e \in c : e.contentHash = h /\ e.expiresAt > t}

\* findOneAndUpdate with a fresh document inserted every time
UpsertCacheAlwaysInsert(c, h, result, t, origin) ==
  c \cup {Entry(h, result, t + CacheTtlMs, origin)}

\* findOneAndUpdate({ contentHash }, { $set: { result, expiresAt } }, { upsert: true })
\* on the unique contentHash index: one document per hash
UpsertCache(c, h, result, t, origin) ==
  IF EntriesOf(c, h) = {}
  THEN c \cup {Entry(h, result, t + CacheTtlMs, origin)}
  ELSE LET old == CHOOSE e \in EntriesOf(c, h) : TRUE
       IN (c \ {old}) \cup {Entry(h, result, t + CacheTtlMs, origin)}

\* deleteOne({ contentHash })
DeleteOneCache(c, h) ==
  IF EntriesOf(c, h) = {} THEN c
  ELSE c \ {CHOOSE e \in EntriesOf(c, h) : TRUE}

\* ------------------------------------------- registrations collection
NoReg == [kind |-> "none"]

\* new Registration({...}).save() in secureRegisterTweet (the document's
\* dates, content, ipfs and metadata fields are not part of the model)
NewRegistration(h, w) ==
  [kind |-> "reg", contentHash |-> h, authorWallet |-> ToUpper(w), status |-> "pending",
   txId |-> NoStr, blockHeight |-> Unset, registrationId |-> Unset, verifications |-> 0]

RegsOf(rs, h) == {r \in rs : r.contentHash = h}

\* the status filter without 'confirmed'
FindRegPendingOnly(rs, h) ==
  {r \in rs : r.contentHash = h /\ r.status = "pending"}

\* Registration.findOne({ contentHash, 'blockchain.status': { $in: ['confirmed', 'pending'] } })
FindReg(rs, h) ==
  {r \in rs : r.contentHash = h /\ r.status \in {"confirmed", "pending"}}

\* { $inc: { 'analytics.verifications': 1 } } on the document of hash h
IncVerifications(rs, h) ==
  {IF r.contentHash = h THEN [r EXCEPT !.verifications = @ + 1] ELSE r : r \in rs}

\* ------------------------------------------------ verifyTweet responses
NoResp == [kind |-> "none"]

\* new Date(ts > 1000000000000 ? ts : ts * 1000)
ToDateMs(ts) ==
  IF ts \div Million > Million \/ (ts \div Million = Million /\ ts % Million > 0)
  THEN ts ELSE ts * 1000

Data(h, author, registeredAt, blockHeight, registrationId, txId) ==
  [kind |-> "data", hash |-> h, author |-> author, registeredAt |-> registeredAt,
   blockHeight |-> blockHeight, registrationId |-> registrationId, txId |-> txId]

Response(status, success, verified, path, data) ==
  [kind |-> "resp", status |-> status, success |-> success, verified |-> verified,
   path |-> path, data |-> data]

\* 400: neither tweetContent nor hash
BadRequestResponse == Response(400, FALSE, FALSE, "bad-request", NoData)

\* catch (error): 500 'Error during verification'
ErrorResponse == Response(500, FALSE, FALSE, "error", NoData)

\* 'Content verified (cached)': data from cached.result, no registrationId;
\* reading a field of a missing result throws (caught: 500), a field the
\* payload does not carry is undefined
CachedResponse(h, e) ==
  IF e.result.kind = "missing" THEN ErrorResponse
  ELSE IF e.result.kind = "pos"
       THEN Response(200, TRUE, TRUE, "cache",
                     Data(h, e.result.authorWallet, e.result.registrationDate,
                          e.result.blockHeight, Unset, e.result.txId))
       ELSE Response(200, TRUE, TRUE, "cache", Data(h, NoStr, Unset, Unset, Unset, NoStr))

\* the store step's answer, from the Registration read by the lookup
\* (registeredAt comes from the document's dates, which are not modelled)
StoreResponse(h, r) ==
  Response(200, TRUE, TRUE, "store",
           Data(h, r.authorWallet, Unset,
                OrNum(r.blockHeight, 0), OrNum(r.registrationId, 0), OrStr(r.txId, "")))

\* the cache payload the store step writes
StoreCacheResult(r) ==
  ResPos(r.authorWallet, OrNum(r.blockHeight, 0), Unset, OrStr(r.txId, ""))

\* a miss answered as a server error
ChainNegativeResponseAsError == Response(500, FALSE, FALSE, "chain-neg", NoData)

\* 'Content not found on blockchain'
ChainNegativeResponse == Response(200, TRUE, FALSE, "chain-neg", NoData)

\* the chain step's positive answer, from the Gateway's record
ChainPositiveResponse(h, v) ==
  Response(200, TRUE, TRUE, "chain-pos",
           Data(h, v.author, ToDateMs(v.timestamp), v.blockHeight, v.registrationId, NoStr))

\* the cache payload the chain step writes for a found hash (no txId)
ChainCacheResult(v) ==
  ResPos(v.author, v.blockHeight, ToDateMs(v.timestamp), NoStr)


\* ------------------------------- VerificationController.verifyTweet
Idle ==
  [pc |-> "idle", h |-> "h1", cached |-> NoEntry, lookupAt |-> 0, reg |-> NoReg,
   ver |-> Null, resp |-> NoResp,
   \* history of the request, for the properties
   steps |-> <<>>, gwCalls |-> 0, chainAuthorAtStart |-> "none",
   confirmedAtLookup |-> FALSE, cachedKind |-> "unread", servedOrigin |-> NoResp,
   regKind |-> "unread", verKind |-> "unasked"]

\* what the request keeps once it has answered: the response and the
\* history of its steps; its locals are gone
Answered(r, resp) ==
  [r EXCEPT !.pc = "done", !.resp = resp, !.cached = NoEntry, !.lookupAt = 0,
            !.reg = NoReg, !.ver = Null]

KindOf(e) == IF e.kind = "none" THEN "none" ELSE e.result.kind

RegKindOf(r) == IF r.kind = "none" THEN "none" ELSE r.status

VerKindOf(v) ==
  IF v = Null THEN "null" ELSE IF v.author = "unknown" THEN "degraded" ELSE "full"

\* the author recorded on chain for h (newest version first), "none" if none
ChainAuthor(ch, h) ==
  IF ch["v3"][h] # NoRec THEN ch["v3"][h].author
  ELSE IF ch["v2"][h] # NoRec THEN ch["v2"][h].author
  ELSE IF ch["v1"][h] # NoRec THEN ch["v1"][h].author
  ELSE "none"

IsCorrupt(e) == e.kind = "entry" /\ e.result.kind \in {"missing", "nonbool"}

\* no fast path: a positive entry is re-checked like a negative one
AfterCacheLookupNoFastPath(e) ==
  IF e.kind = "none" THEN "store" ELSE "cacheDelete"

\* a corrupt payload is not detected
AfterCacheLookupNoValidation(e) ==
  IF e.kind = "none" THEN "store"
  ELSE IF e.result.kind = "neg" THEN "cacheDelete"
  ELSE "cacheHit"

\* if (cached) { corrupt -> delete; isRegistered -> answer; else -> delete }
AfterCacheLookup(e) ==
  IF e.kind = "none" THEN "store"
  ELSE IF IsCorrupt(e) THEN "cacheDelete"
  ELSE IF e.result.kind = "pos" THEN "cacheHit"
  ELSE "cacheDelete"

\* a new request takes the lowest free slot (slot numbers carry no meaning)
LowerSlotsBusy(s) == \A u \in Slots : u < s => req[u].pc \notin {"idle", "done"}

FrameVerify == UNCHANGED <<now, network, chain, regOps, gw, sideVars, moreVars>>

\* if (!tweetContent && !hash) return 400
VerifyBadRequest(s) ==
  /\ req[s].pc \in {"idle", "done"}
  /\ LowerSlotsBusy(s)
  /\ started < MaxRequests
  /\ started' = started + 1
  /\ req' = [req EXCEPT ![s] = [Idle EXCEPT !.pc = "done", !.resp = BadRequestResponse]]
  /\ UNCHANGED <<cache, regs>>
  /\ FrameVerify

\* a request for hash h arrives (hashHex computed from the body)
VerifyStart(s, h) ==
  /\ req[s].pc \in {"idle", "done"}
  /\ LowerSlotsBusy(s)
  /\ started < MaxRequests
  /\ started' = started + 1
  /\ req' = [req EXCEPT ![s] = [Idle EXCEPT !.pc = "cache", !.h = h,
                                             !.chainAuthorAtStart = ChainAuthor(chain, h)]]
  /\ UNCHANGED <<cache, regs>>
  /\ FrameVerify

\* Step 1: VerificationCache.findOne, live entries only
CacheLookup(s) ==
  /\ req[s].pc = "cache"
  /\ \E e \in LiveEntries(cache, req[s].h, now) \cup {NoEntry} :
       /\ e = NoEntry => LiveEntries(cache, req[s].h, now) = {}
       /\ req' = [req EXCEPT ![s].cached = e,
                             ![s].lookupAt = now,
                             ![s].cachedKind = KindOf(e),
                             ![s].confirmedAtLookup =
                                /\ KindOf(e) = "neg"
                                /\ \E r \in RegsOf(regs, req[s].h) : r.status = "confirmed",
                             ![s].steps = Append(@, "cache"),
                             ![s].pc = AfterCacheLookup(e)]
  /\ UNCHANGED <<cache, regs, started>>
  /\ FrameVerify

\* VerificationCache.deleteOne for a corrupt or a negative entry
CacheDelete(s) ==
  /\ req[s].pc = "cacheDelete"
  /\ cache' = DeleteOneCache(cache, req[s].h)
  /\ req' = [req EXCEPT ![s].pc = "store", ![s].cached = NoEntry, ![s].lookupAt = 0]
  /\ UNCHANGED <<regs, started>>
  /\ FrameVerify

\* positive cache entry: analytics increment, answer from the entry
CacheHit(s) ==
  /\ req[s].pc = "cacheHit"
  /\ regs' = IncVerifications(regs, req[s].h)
  /\ req' = [req EXCEPT ![s] = [Answered(@, CachedResponse(req[s].h, req[s].cached))
                                  EXCEPT !.servedOrigin = req[s].cached.origin.resp]]
  /\ UNCHANGED <<cache, started>>
  /\ FrameVerify

\* Step 2: Registration.findOne, confirmed or pending
StoreLookup(s) ==
  /\ req[s].pc = "store"
  /\ \E r \in FindReg(regs, req[s].h) \cup {NoReg} :
       /\ r = NoReg => FindReg(regs, req[s].h) = {}
       /\ req' = [req EXCEPT ![s].reg = r,
                             ![s].regKind = RegKindOf(r),
                             ![s].steps = Append(@, "store"),
                             ![s].pc = IF r = NoReg THEN "chain" ELSE "storeWrite"]
  /\ UNCHANGED <<cache, regs, started>>
  /\ FrameVerify

\* the store step's cache upsert, expiry one hour after the write
StoreCacheWrite(s) ==
  /\ req[s].pc = "storeWrite"
  /\ cache' = UpsertCache(cache, req[s].h, StoreCacheResult(req[s].reg), now,
                          [path |-> "store", resp |-> StoreResponse(req[s].h, req[s].reg)])
  /\ req' = [req EXCEPT ![s].pc = "storeRespond"]
  /\ UNCHANGED <<regs, started>>
  /\ FrameVerify

\* Registration.findByIdAndUpdate (analytics), then the answer
StoreRespond(s) ==
  /\ req[s].pc = "storeRespond"
  /\ regs' = IncVerifications(regs, req[s].h)
  /\ req' = [req EXCEPT ![s] = Answered(@, StoreResponse(req[s].h, req[s].reg))]
  /\ UNCHANGED <<cache, started>>
  /\ FrameVerify

\* Step 3: this.blockchainService.verifyTweet(contentHash)
ChainQuery(s) ==
  /\ req[s].pc = "chain"
  /\ \E v \in GatewayAnswers(req[s].h, chain, network, now) :
       req' = [req EXCEPT ![s].ver = v,
                          ![s].verKind = VerKindOf(v),
                          ![s].steps = Append(@, "chain"),
                          ![s].gwCalls = @ + 1,
                          ![s].pc = "chainWrite"]
  /\ UNCHANGED <<cache, regs, started>>
  /\ FrameVerify

\* the chain step's cache upsert (negative or positive), then the answer
ChainRespond(s) ==
  /\ req[s].pc = "chainWrite"
  /\ LET v == req[s].ver
         h == req[s].h
         resp == IF v = Null THEN ChainNegativeResponse ELSE ChainPositiveResponse(h, v)
         res == IF v = Null THEN ResNeg ELSE ChainCacheResult(v)
     IN /\ cache' = UpsertCache(cache, h, res, now, [path |-> "chain", resp |-> resp])
        /\ req' = [req EXCEPT ![s] = Answered(@, resp)]
  /\ UNCHANGED <<regs, started>>
  /\ FrameVerify

\* ------------------------------------------- RegistrationController
FrameReg == UNCHANGED <<now, network, chain, cache, req, started, gw, sideVars, moreVars>>

\* secureRegisterTweet by wallet w for content of hash h: 409 when the
\* store has it confirmed or the primary contract has it, 500 when save()
\* hits the unique contentHash index, else a pending Registration
SecureRegisterTweet(w, h, o) ==
  /\ regOps < MaxRegOps
  /\ regOps' = regOps + 1
  /\ regs' = IF \E r \in RegsOf(regs, h) : r.status = "confirmed" THEN regs  \* 409
             ELSE IF hashExists(h, chain, o).val THEN regs                   \* 409
             ELSE IF RegsOf(regs, h) # {} THEN regs                          \* 500
             ELSE regs \cup {NewRegistration(h, w)}                          \* 200
  /\ FrameReg

\* confirmRegistration for content of hash h with transaction id "tx1":
\* 404 when the Gateway finds nothing, else the Registration of h (if any)
\* becomes confirmed with the Gateway's block height and registration id
\* the update without the 404 return
ConfirmedRegsUnverified(rs, h, v) ==
  {IF r.contentHash = h
   THEN [r EXCEPT !.txId = "tx1", !.blockHeight = IF v = Null THEN 0 ELSE v.blockHeight,
                  !.registrationId = IF v = Null THEN 0 ELSE v.registrationId,
                  !.status = "confirmed"]
   ELSE r : r \in rs}

\* if (!verification) return 404; Registration.findOneAndUpdate({ contentHash }, $set)
ConfirmedRegs(rs, h, v) ==
  IF v = Null THEN rs                                                       \* 404
  ELSE {IF r.contentHash = h
        THEN [r EXCEPT !.txId = "tx1", !.blockHeight = v.blockHeight,
                       !.registrationId = v.registrationId,
                       !.status = "confirmed"]
        ELSE r : r \in rs}                                                  \* 200

ConfirmRegistration(h) ==
  /\ regOps < MaxRegOps
  /\ regOps' = regOps + 1
  /\ \E v \in GatewayAnswers(h, chain, network, now) :
       regs' = ConfirmedRegs(regs, h, v)
  /\ FrameReg

\* ------------------------------ VerificationController.batchVerify
\* an item of the request body: a content string, a hash string, neither,
\* a truthy non-string content or hash (JSON number), or null
ItemHash(h) == [kind |-> "hash", val |-> h]
ItemContent(c) == [kind |-> "content", val |-> c]
ItemNeither == [kind |-> "neither", val |-> NoStr]
ItemNumberContent == [kind |-> "number-content", val |-> NoStr]
ItemNumberHash == [kind |-> "number-hash", val |-> NoStr]
ItemNull == [kind |-> "null-item", val |-> NoStr]

\* "h2" is a well-formed hash no contract holds, "zz" is not hexadecimal
PlainItem == ItemHash("h2")
SpecialItems ==
  {ItemHash("h1"), ItemContent("c1"), ItemHash("zz"), ItemNeither,
   ItemNumberContent, ItemNumberHash, ItemNull}

\* the item lists of the model: plain items with at most one special item
ItemLists ==
  {<<>>} \cup
  UNION {{[i \in 1..n |-> IF i = k THEN sp ELSE PlainItem] :
            k \in 1..n, sp \in SpecialItems \cup {PlainItem}} :
         n \in 1..(MaxBatchItems + MaxExtraItems)}

\* req.body of a batch request: items missing, not an array, or an array
BatchBodies ==
  {[kind |-> "missing", items |-> <<>>], [kind |-> "not-array", items |-> <<>>]}
  \cup {[kind |-> "array", items |-> its] : its \in ItemLists}

\* !items || !Array.isArray(items) || items.length === 0, items.length > 10
BatchBodyRejected(body) ==
  \/ body.kind # "array"
  \/ Len(body.items) = 0
  \/ Len(body.items) > MaxBatchItems

\* HashService.generateContentHashHex of the model's content strings
HashHexOfContent(c) == IF c \in {"c1", " c1 "} THEN "h1" ELSE "h2"

\* item.content / item.hash is read and hashed before the item's try:
\* null.content, (123).trim() and (123).startsWith() throw a TypeError
ItemThrows(it) == it.kind \in {"number-content", "number-hash", "null-item"}

ItemHashHex(it) == IF it.kind = "content" THEN HashHexOfContent(it.val) ELSE it.val

\* what blockchainService.verifyTweet can answer for the item's buffer
BatchAnswers(hx, ch, net, t) ==
  IF hx \in Hashes THEN GatewayAnswers(hx, ch, net, t) ELSE {Null}

NeitherResult ==
  [success |-> FALSE, verified |-> FALSE, hash |-> NoStr,
   error |-> "Either content or hash required", data |-> NoData]

\* the result pushed after the Gateway answered v (null or a record)
ItemResult(hx, v) ==
  [success |-> TRUE, verified |-> v # Null, hash |-> hx, error |-> NoStr,
   data |-> IF v = Null THEN NoData
            ELSE [kind |-> "data", author |-> v.author,
                  registeredAt |-> v.timestamp * 1000,
                  blockHeight |-> v.blockHeight, registrationId |-> v.registrationId]]

BatchResponse(status, success, results) ==
  [kind |-> "resp", status |-> status, success |-> success, results |-> results]

BatchIdle ==
  [pc |-> "idle", body |-> [kind |-> "missing", items |-> <<>>], i |-> 1,
   results |-> <<>>, resp |-> NoResp,
   \* history: hashing calls, Gateway calls and the Gateway's answers
   hashCalls |-> 0, gwCalls |-> 0, answers |-> <<>>]

FrameBatch ==
  UNCHANGED <<now, network, chain, cache, regs, req, started, regOps, gw,
              bnsDocs, registry, sweep, cron, sreg, users, hsv, moreVars>>

\* a batch request arrives: 400 for a rejected body, else the loop starts
BatchStart(body) ==
  /\ batch.pc = "idle"
  /\ batch' = IF BatchBodyRejected(body)
              THEN [BatchIdle EXCEPT !.pc = "done", !.body = body,
                                     !.resp = BatchResponse(400, FALSE, <<>>)]
              ELSE [BatchIdle EXCEPT !.pc = "loop", !.body = body]
  /\ FrameBatch

\* one turn of for (const item of items)
BatchItem ==
  /\ batch.pc = "loop"
  /\ batch.i <= Len(batch.body.items)
  /\ LET it == batch.body.items[batch.i]
     IN IF ItemThrows(it)
        THEN \* outer catch: 500 'Error during batch verification'
             batch' = [batch EXCEPT !.pc = "done",
                                    !.resp = BatchResponse(500, FALSE, <<>>)]
        ELSE IF it.kind = "neither"
        THEN batch' = [batch EXCEPT !.i = @ + 1,
                                    !.results = Append(@, NeitherResult),
                                    !.answers = Append(@, Null)]
        ELSE \E v \in BatchAnswers(ItemHashHex(it), chain, network, now) :
               batch' = [batch EXCEPT !.i = @ + 1,
                                      !.results = Append(@, ItemResult(ItemHashHex(it), v)),
                                      !.answers = Append(@, v),
                                      !.hashCalls = @ + 1,
                                      !.gwCalls = @ + 1]
  /\ FrameBatch

\* res.json after the loop
BatchRespond ==
  /\ batch.pc = "loop"
  /\ batch.i > Len(batch.body.items)
  /\ batch' = [batch EXCEPT !.pc = "done",
                            !.resp = BatchResponse(200, TRUE, batch.results)]
  /\ FrameBatch

\* ------------------- secureRegisterTweet, one await at a time
\* request bodies with the same normalized content
Contents == {"c1", " c1 "}

NoUser ==
  [exists |-> FALSE, totalRegistrations |-> 0, pendingRegistrations |-> 0,
   confirmedRegistrations |-> 0]

\* created, incs, upserted, uploaded: history (this request's save() inserted
\* the document; the $inc updates it sent; it ran the User upsert; it stored
\* the content on IPFS)
SrIdle ==
  [pc |-> "idle", w |-> "SP_P", h |-> "h1", status |-> 0, created |-> FALSE, incs |-> 0,
   upserted |-> FALSE, uploaded |-> FALSE]

\* save() on a collection without the unique index
SaveRegistrationNoIndex(rs, h, w) ==
  [ok |-> TRUE, regs |-> rs \cup {NewRegistration(h, w)}]

\* registration.save(): the unique index on contentHash rejects a second
\* document of the hash (E11000)
SaveRegistration(rs, h, w) ==
  IF RegsOf(rs, h) # {}
  THEN [ok |-> FALSE, regs |-> rs]
  ELSE [ok |-> TRUE, regs |-> rs \cup {NewRegistration(h, w)}]

FrameSr ==
  UNCHANGED <<now, network, chain, cache, req, started, regOps, gw,
              batch, bnsDocs, registry, sweep, cron, hsv, moreVars>>

\* the request arrives with content c and a wallet address; the hash is computed
SrStart(s, w, c) ==
  /\ sreg[s].pc = "idle"
  /\ \A t \in Slots : t < s => sreg[t].pc # "idle"
  /\ sreg' = [sreg EXCEPT ![s] = [SrIdle EXCEPT !.pc = "find", !.w = w,
                                                !.h = HashHexOfContent(c)]]
  /\ UNCHANGED <<regs, users>>
  /\ FrameSr

\* Registration.findOne({ contentHash }): 409 when it is confirmed
SrFind(s) ==
  /\ sreg[s].pc = "find"
  /\ sreg' = [sreg EXCEPT ![s] =
                IF \E r \in RegsOf(regs, sreg[s].h) : r.status = "confirmed"
                THEN [@ EXCEPT !.pc = "done", !.status = 409]
                ELSE [@ EXCEPT !.pc = "exists"]]
  /\ UNCHANGED <<regs, users>>
  /\ FrameSr

\* blockchainService.hashExists: 409 when the contract has the hash
SrHashExists(s, o) ==
  /\ sreg[s].pc = "exists"
  /\ sreg' = [sreg EXCEPT ![s] =
                IF hashExists(sreg[s].h, chain, o).val
                THEN [@ EXCEPT !.pc = "done", !.status = 409]
                ELSE [@ EXCEPT !.pc = "upsert"]]
  /\ UNCHANGED <<regs, users>>
  /\ FrameSr

\* User.findOneAndUpdate(..., { upsert: true }): no counter is touched
SrUserUpsert(s) ==
  /\ sreg[s].pc = "upsert"
  /\ users' = [users EXCEPT ![ToUpper(sreg[s].w)].exists = TRUE]
  /\ sreg' = [sreg EXCEPT ![s].pc = "ipfs", ![s].upserted = TRUE]
  /\ UNCHANGED regs
  /\ FrameSr

\* if (storeOnIPFS) ipfsService.storeContent(...): a failed upload is logged
\* and the request goes on without it
SrIpfs(s, storeOnIPFS, o) ==
  /\ sreg[s].pc = "ipfs"
  /\ sreg' = [sreg EXCEPT ![s].pc = "save", ![s].uploaded = storeOnIPFS /\ o = "ok"]
  /\ UNCHANGED <<regs, users>>
  /\ FrameSr

\* the body lacks tweetContent or walletAddress, or the content is longer
\* than 280 characters: 400
SrBadRequest(s) ==
  /\ sreg[s].pc = "idle"
  /\ \A t \in Slots : t < s => sreg[t].pc # "idle"
  /\ sreg' = [sreg EXCEPT ![s] = [SrIdle EXCEPT !.pc = "done", !.status = 400]]
  /\ UNCHANGED <<regs, users>>
  /\ FrameSr

\* registration.save(): a rejected save throws, the catch answers 500
SrSave(s) ==
  /\ sreg[s].pc = "save"
  /\ LET saved == SaveRegistration(regs, sreg[s].h, sreg[s].w)
     IN /\ regs' = saved.regs
        /\ sreg' = [sreg EXCEPT ![s] =
                      IF saved.ok THEN [@ EXCEPT !.pc = "inc", !.created = TRUE]
                      ELSE [@ EXCEPT !.pc = "done", !.status = 500]]
  /\ UNCHANGED users
  /\ FrameSr

\* User.findOneAndUpdate $inc of the counters, then the 200 response
SrUserInc(s) ==
  /\ sreg[s].pc = "inc"
  /\ users' = [users EXCEPT ![ToUpper(sreg[s].w)] =
                 IF @.exists
                 THEN [@ EXCEPT !.totalRegistrations = @ + 1, !.pendingRegistrations = @ + 1]
                 ELSE @]
  /\ sreg' = [sreg EXCEPT ![s] = [@ EXCEPT !.pc = "done", !.status = 200, !.incs = @ + 1]]
  /\ UNCHANGED regs
  /\ FrameSr

\* ------------------------- confirmRegistration and the User counters
CrIdle == [calls |-> 0, status |-> 0]

FrameCr ==
  UNCHANGED <<now, network, chain, cache, req, started, regOps, gw,
              batch, bnsDocs, registry, sweep, cron, sreg, hsv, probe, ct, rl, pop, ext, auth>>

\* User.findOneAndUpdate({ walletAddress: updatedRegistration.authorWallet },
\* { $inc: { confirmedRegistrations: 1, pendingRegistrations: -1 } })
ConfirmStats(us, rs, h) ==
  IF RegsOf(rs, h) = {} THEN us
  ELSE LET w == (CHOOSE r \in RegsOf(rs, h) : TRUE).authorWallet
       IN  [us EXCEPT ![w] =
              IF @.exists
              THEN [@ EXCEPT !.confirmedRegistrations = @ + 1, !.pendingRegistrations = @ - 1]
              ELSE @]

\* confirmRegistration for content of hash h, from body to response: 404
\* when the Gateway finds nothing; else the Registration of h (if any) is
\* set to confirmed and its author's counters are moved, and the answer is 200
confirmRegistration(h) ==
  /\ cr.calls < MaxConfirms
  /\ \E v \in GatewayAnswers(h, chain, network, now) :
       /\ regs' = ConfirmedRegs(regs, h, v)
       /\ users' = IF v = Null THEN users ELSE ConfirmStats(users, regs, h)
       /\ cr' = [calls |-> cr.calls + 1, status |-> IF v = Null THEN 404 ELSE 200]
  /\ FrameCr

\* the body lacks tweetContent or txId: 400
confirmBadRequest ==
  /\ cr.calls < MaxConfirms
  /\ cr' = [calls |-> cr.calls + 1, status |-> 400]
  /\ UNCHANGED <<regs, users>>
  /\ FrameCr

\* ------------------------------------------- BNSValidationService
DocIds == {1, 2}
Names == {"alice.btc", "bob.btc"}

NoDoc == [kind |-> "none"]

\* the name and wallet a registration request binds to document id
BoundName(id) == IF id = 1 THEN "alice.btc" ELSE "bob.btc"
BoundWallet(id) == IF id = 1 THEN "SP_P" ELSE "SP_Q"

\* a new Registration with a bnsName: bnsStatus defaults to 'valid', the
\* other validation fields are not set (wasInvalid is history: the status
\* has been 'transferred' or 'no-longer-owned')
NewBnsDoc(id) ==
  [kind |-> "doc", bnsName |-> BoundName(id), authorWallet |-> ToUpper(BoundWallet(id)),
   bnsStatus |-> "valid", lastBnsValidation |-> Unset, currentBnsOwner |-> NoStr,
   bnsTransferredAt |-> Unset, wasInvalid |-> FALSE]

\* the name lists the registry can hold for a wallet
NameLists == {<<>>, <<"alice.btc">>, <<"bob.btc">>, <<"bob.btc", "alice.btc">>}

\* outcomes of fetch(url) in fetchWalletBNSNames
FetchOutcomes == {"ok", "throw", "non2xx"}
\* outcomes of Registration.findByIdAndUpdate in the sweep
StoreOutcomes == {"ok", "throw"}

\* lookup failures answered as a list: a thrown fetch is reported as failed
fetchWalletBNSNamesRethrow(names, o) == IF o = "ok" THEN names ELSE <<"lookup-failed">>

\* fetchWalletBNSNames: [] when the response is not ok and on any exception
fetchWalletBNSNames(names, o) == IF o = "ok" THEN names ELSE <<>>

Includes(names, n) == \E i \in 1..Len(names) : names[i] = n

\* every name-less answer reported as a transfer
validateRegistrationNoUnowned(originalBNS, currentNames) ==
  IF Includes(currentNames, originalBNS)
  THEN [isValid |-> TRUE, currentNames |-> currentNames, status |-> "valid"]
  ELSE [isValid |-> FALSE, currentNames |-> currentNames, status |-> "transferred"]

\* validateRegistration, from the list fetchWalletBNSNames returned
validateRegistration(originalBNS, currentNames) ==
  IF Includes(currentNames, originalBNS)
  THEN [isValid |-> TRUE, currentNames |-> currentNames, status |-> "valid"]
  ELSE IF Len(currentNames) > 0
       THEN [isValid |-> FALSE, currentNames |-> currentNames, status |-> "transferred"]
       ELSE [isValid |-> FALSE, currentNames |-> <<>>, status |-> "no-longer-owned"]

\* result.currentNames[0] || null
FirstNameOrNull(names) == IF Len(names) > 0 /\ names[1] # "" THEN names[1] ELSE NoStr

\* $set of the sweep: lastBnsValidation and bnsStatus always, the transfer
\* fields only when the status is 'transferred'
SweepUpdate(d, result, t) ==
  [d EXCEPT !.lastBnsValidation = t,
            !.bnsStatus = result.status,
            !.bnsTransferredAt = IF result.status = "transferred" THEN t ELSE @,
            !.currentBnsOwner = IF result.status = "transferred"
                                THEN ToUpper(FirstNameOrNull(result.currentNames)) ELSE @,
            !.wasInvalid = @ \/ result.status # "valid"]

\* Registration.find: bnsName set, never validated or validated before the cutoff
IsStale(d, t) ==
  /\ d # NoDoc
  /\ d.bnsName # NoStr
  /\ (d.lastBnsValidation = Unset \/ d.lastBnsValidation < t - ValidationIntervalMs)

\* the selected documents, in id order, at most limit(100) of them
StaleQueue(docs, t) ==
  LET all == IF IsStale(docs[1], t)
             THEN IF IsStale(docs[2], t) THEN <<1, 2>> ELSE <<1>>
             ELSE IF IsStale(docs[2], t) THEN <<2>> ELSE <<>>
  IN IF Len(all) <= SweepLimit THEN all ELSE SubSeq(all, 1, SweepLimit)

SweepIdle ==
  [pc |-> "idle", queue |-> <<>>, i |-> 1, validatedCount |-> 0, result |-> Unset,
   \* history: the sweeps started, and per record of this sweep the lookup's
   \* outcome, the status before and after, and whether it was counted
   sweeps |-> 0, log |-> <<>>]

FrameBns ==
  UNCHANGED <<network, chain, cache, regs, req, started, regOps, gw, batch, sreg, users, hsv, moreVars>>

\* a Registration with a BNS name is created
RegisterWithBns(id) ==
  /\ bnsDocs[id] = NoDoc
  /\ bnsDocs' = [bnsDocs EXCEPT ![id] = NewBnsDoc(id)]
  /\ UNCHANGED <<now, registry, sweep, cron>>
  /\ FrameBns

\* the registry's list for wallet w changes (names bought, sold, moved)
RegistryChange(w, names) ==
  /\ registry[w] # names
  /\ registry' = [registry EXCEPT ![w] = names]
  /\ UNCHANGED <<now, bnsDocs, sweep, cron>>
  /\ FrameBns

\* validateStaleRegistrations starts: the stale documents are selected
SweepBegin ==
  /\ sweep.pc \in {"idle", "done"}
  /\ sweep.sweeps < MaxSweeps
  /\ sweep' = [SweepIdle EXCEPT !.pc = "loop", !.queue = StaleQueue(bnsDocs, now),
                                !.sweeps = sweep.sweeps + 1]
  /\ UNCHANGED <<now, bnsDocs, registry>>
  /\ FrameBns

\* triggerManualValidation
SweepStart ==
  /\ SweepBegin
  /\ UNCHANGED cron

\* one turn of the loop: lookup o, validation, store update so
SweepItem(o, so) ==
  /\ sweep.pc = "loop"
  /\ sweep.i <= Len(sweep.queue)
  /\ LET id == sweep.queue[sweep.i]
         d == bnsDocs[id]
         names == fetchWalletBNSNames(registry[BoundWallet(id)], o)
         result == validateRegistration(d.bnsName, names)
         entry == [id |-> id, lookup |-> o, before |-> d.bnsStatus]
     IN IF so = "throw"
        THEN \* catch: logged, the record is skipped
             /\ bnsDocs' = bnsDocs
             /\ sweep' = [sweep EXCEPT !.i = @ + 1,
                            !.log = Append(@, [id |-> id, lookup |-> o, before |-> d.bnsStatus,
                                               after |-> d.bnsStatus, counted |-> FALSE])]
        ELSE /\ bnsDocs' = [bnsDocs EXCEPT ![id] = SweepUpdate(d, result, now)]
             /\ sweep' = [sweep EXCEPT !.i = @ + 1,
                            !.validatedCount = @ + 1,
                            !.log = Append(@, [id |-> id, lookup |-> o, before |-> d.bnsStatus,
                                               after |-> result.status, counted |-> TRUE])]
  /\ UNCHANGED <<now, registry, cron>>
  /\ FrameBns

\* return validatedCount
SweepEnd ==
  /\ sweep.pc = "loop"
  /\ sweep.i > Len(sweep.queue)
  /\ sweep' = [sweep EXCEPT !.pc = "done", !.result = sweep.validatedCount]
  /\ UNCHANGED <<now, bnsDocs, registry, cron>>
  /\ FrameBns

\* a day passes
DayTick ==
  /\ now < MaxDays * ValidationIntervalMs
  /\ now' = now + ValidationIntervalMs
  /\ UNCHANGED <<bnsDocs, registry, sweep, cron>>
  /\ FrameBns

\* ------------------- validateStaleRegistrations on a large collection
\* the Registration documents by their position in the collection; the
\* document at position 1 has no bnsName, the others have one
Positions == 1..PopSize
HasBnsName(d) == d # 1

\* the orders in which find() without sort can return the documents: the
\* collection's natural order, or the order of the lastBnsValidation index
\* (documents without the field first, then the oldest date first)
FindOrders == {"natural", "lastBnsValidation"}

\* age[d] is Date.now() - lastBnsValidation of document d (Unset when the
\* field is absent); ages at or above AgeCap are kept as AgeCap. queue, i,
\* validatedCount are the locals of the running sweep; status is the last
\* classification; due: the cron's timer has fired; manual counts the
\* manual runs
AgeCap == 3 * ValidationIntervalMs
HalfDayMs == ValidationIntervalMs \div 2

PopInit ==
  [age |-> [d \in Positions |-> Unset], pc |-> "idle", queue |-> <<>>, i |-> 1,
   validatedCount |-> 0, status |-> NoStr, due |-> TRUE, manual |-> 0]

\* bnsName: { $exists: true, $ne: null }, lastBnsValidation: { $lt: cutoffDate }
\* or absent; cutoffDate = Date.now() - maxAge
PopIsStale(age, d) ==
  /\ HasBnsName(d)
  /\ (age[d] = Unset \/ age[d] > ValidationIntervalMs)

PopStale(age) == {d \in Positions : PopIsStale(age, d)}

\* the ages a stale document can have, oldest first; a document without
\* the field sorts before every date
StaleAges ==
  <<Unset, AgeCap, AgeCap - HalfDayMs, AgeCap - 2 * HalfDayMs, AgeCap - 3 * HalfDayMs>>

\* the documents at positions lo..hi, in collection order, that match the
\* filter and whose age is in ages
RECURSIVE Matching(_, _, _, _)
Matching(lo, hi, ages, age) ==
  IF lo > hi THEN <<>>
  ELSE IF lo = hi
       THEN IF PopIsStale(age, lo) /\ age[lo] \in ages THEN <<lo>> ELSE <<>>
       ELSE LET mid == (lo + hi) \div 2
            IN Matching(lo, mid, ages, age) \o Matching(mid + 1, hi, ages, age)

AllAges == {StaleAges[k] : k \in 1..Len(StaleAges)}

\* the index scan: one age after the other, oldest first
RECURSIVE IndexScan(_, _)
IndexScan(k, age) ==
  IF k > Len(StaleAges) THEN <<>>
  ELSE Matching(1, PopSize, {StaleAges[k]}, age) \o IndexScan(k + 1, age)

\* find(...) without the limit
FindStaleUnlimited(order, age) ==
  IF order = "natural" THEN Matching(1, PopSize, AllAges, age) ELSE IndexScan(1, age)

\* find(...).limit(100)
FindStale(order, age) ==
  LET all == IF order = "natural" THEN Matching(1, PopSize, AllAges, age)
             ELSE IndexScan(1, age)
  IN IF Len(all) <= SweepLimit THEN all ELSE SubSeq(all, 1, SweepLimit)

FramePop ==
  UNCHANGED <<now, network, chain, cache, regs, req, started, regOps, gw, sideVars, probe, ct, rl, lateVars>>

\* validateStaleRegistrations starts (runValidation of the cron when cronRun,
\* else triggerManualValidation): the stale documents are selected
PopSweepBegin(order, cronRun) ==
  /\ pop.pc = "idle"
  /\ IF cronRun THEN pop.due ELSE pop.manual < MaxManualSweeps
  /\ pop' = [pop EXCEPT !.pc = "loop", !.queue = FindStale(order, pop.age), !.i = 1,
                        !.validatedCount = 0,
                        !.due = IF cronRun THEN FALSE ELSE @,
                        !.manual = IF cronRun THEN @ ELSE @ + 1]
  /\ FramePop

\* the documents whose store update can fail
FlakyDocs == {2}

\* one turn of the loop: classification status, store update so; the update
\* sets lastBnsValidation to new Date(); a failed update is logged and the
\* document skipped
PopSweepItem(status, so) ==
  /\ pop.pc = "loop"
  /\ pop.i <= Len(pop.queue)
  /\ LET d == pop.queue[pop.i]
     IN /\ so = "throw" => d \in FlakyDocs
        /\ IF so = "throw"
           THEN pop' = [pop EXCEPT !.i = @ + 1]
           ELSE pop' = [pop EXCEPT !.i = @ + 1, !.validatedCount = @ + 1,
                                   !.age[d] = 0, !.status = status]
  /\ FramePop

\* return validatedCount
PopSweepEnd ==
  /\ pop.pc = "loop"
  /\ pop.i > Len(pop.queue)
  /\ pop' = [pop EXCEPT !.pc = "idle", !.queue = <<>>, !.i = 1]
  /\ FramePop

\* time dt passes between two sweeps (a sweep takes seconds); after 24
\* hours the cron's interval timer has fired
PopTick(dt) ==
  /\ pop.pc = "idle"
  /\ pop' = [pop EXCEPT
               !.age = [d \in Positions |->
                          IF pop.age[d] = Unset THEN Unset
                          ELSE IF pop.age[d] + dt >= AgeCap THEN AgeCap
                          ELSE pop.age[d] + dt],
               !.due = @ \/ dt >= ValidationIntervalMs]
  /\ FramePop

\* ------------------------------------------------ BNS validation cron
NoCronCall == [op |-> "none", scheduled |-> FALSE, raised |-> FALSE]

\* validationTimer = null is 0; intervals are the setInterval timers not
\* cleared, timeouts the pending one-shot timers of the initial run (calls,
\* lastCall and nextHandle are history)
CronIdle ==
  [validationTimer |-> 0, intervals |-> {}, timeouts |-> 0, nextHandle |-> 1,
   calls |-> 0, lastCall |-> NoCronCall]

\* a start that never sees the timer
CronRunningNever(c) == FALSE

\* if (validationTimer)
CronRunning(c) == c.validationTimer # 0

\* startBNSValidationCron
startBNSValidationCron(c) ==
  IF CronRunning(c)
  THEN [c EXCEPT !.calls = @ + 1,
                 !.lastCall = [op |-> "start", scheduled |-> FALSE, raised |-> FALSE]]
  ELSE [c EXCEPT !.timeouts = @ + 1,
                 !.validationTimer = c.nextHandle,
                 !.intervals = @ \cup {c.nextHandle},
                 !.nextHandle = @ + 1,
                 !.calls = @ + 1,
                 !.lastCall = [op |-> "start", scheduled |-> TRUE, raised |-> FALSE]]

\* stopBNSValidationCron
stopBNSValidationCron(c) ==
  IF c.validationTimer # 0
  THEN [c EXCEPT !.intervals = @ \ {c.validationTimer},
                 !.validationTimer = 0,
                 !.calls = @ + 1,
                 !.lastCall = [op |-> "stop", scheduled |-> FALSE, raised |-> FALSE]]
  ELSE [c EXCEPT !.calls = @ + 1,
                 !.lastCall = [op |-> "stop", scheduled |-> FALSE, raised |-> FALSE]]

FrameCron ==
  /\ UNCHANGED <<now, bnsDocs, registry, sweep>>
  /\ FrameBns

StartCron ==
  /\ cron.calls < MaxCronCalls
  /\ cron' = startBNSValidationCron(cron)
  /\ FrameCron

StopCron ==
  /\ cron.calls < MaxCronCalls
  /\ cron' = stopBNSValidationCron(cron)
  /\ FrameCron

\* the one-shot timer of the initial run fires: runValidation
TimeoutFires ==
  /\ cron.timeouts > 0
  /\ cron' = [cron EXCEPT !.timeouts = @ - 1]
  /\ SweepBegin

\* a recurring timer fires: runValidation
IntervalFires ==
  /\ cron.intervals # {}
  /\ UNCHANGED cron
  /\ SweepBegin

\* ------------------------------------------------------- HashService
\* a string is a sequence of characters; TAB is "\t"
Chars == {"a", "b", " ", "TAB"}
WhiteSpace == {" ", "TAB"}

Strings == UNION {[1..n -> Chars] : n \in 0..MaxLen}

CharCode(c) ==
  IF c = "a" THEN 97 ELSE IF c = "b" THEN 98 ELSE IF c = " " THEN 32 ELSE 9

RECURSIVE TrimStart(_)
TrimStart(s) ==
  IF s # <<>> /\ Head(s) \in WhiteSpace THEN TrimStart(Tail(s)) ELSE s

RECURSIVE TrimEnd(_)
TrimEnd(s) ==
  IF s # <<>> /\ s[Len(s)] \in WhiteSpace THEN TrimEnd(SubSeq(s, 1, Len(s) - 1)) ELSE s

\* content.trim()
Trim(s) == TrimEnd(TrimStart(s))

\* .replace(/\s+/g, ' '): every maximal run of whitespace becomes one space
RECURSIVE Collapse(_)
Collapse(s) ==
  IF s = <<>> THEN <<>>
  ELSE IF Head(s) \in WhiteSpace
       THEN <<" ">> \o Collapse(TrimStart(s))
       ELSE <<Head(s)>> \o Collapse(Tail(s))

\* the cleaning without the replace
NormalizeTrimOnly(s) == Trim(s)

\* cleanContent = content.trim().replace(/\s+/g, ' ')
Normalize(s) == Collapse(Trim(s))

\* stand-in for SHA-256: a DigestLen-byte digest computed from the bytes of
\* the cleaned string and from nothing else
RECURSIVE Fold(_, _)
Fold(s, acc) ==
  IF s = <<>> THEN acc ELSE Fold(Tail(s), (acc * 31 + CharCode(Head(s))) % 65521)

Digest(s) ==
  LET acc == Fold(s, 7)
  IN [i \in 1..DigestLen |-> (acc + i * (acc \div 256 + 1)) % 256]

generateContentHash(content) == Digest(Normalize(content))

HexDigits == <<"0", "1", "2", "3", "4", "5", "6", "7", "8", "9", "a", "b", "c", "d", "e", "f">>

RECURSIVE ToHex(_)
\* buffer.toString('hex')
ToHex(buf) ==
  IF buf = <<>> THEN <<>>
  ELSE <<HexDigits[Head(buf) \div 16 + 1], HexDigits[(Head(buf) % 16) + 1]>> \o ToHex(Tail(buf))

generateContentHashHex(content) == ToHex(generateContentHash(content))

\* computedHash.equals(expectedHash)
validateContentHash(content, expectedHash) == generateContentHash(content) = expectedHash

IsHexDigit(c) == \E i \in 1..16 : HexDigits[i] = c
HexValue(c) == (CHOOSE i \in 1..16 : HexDigits[i] = c) - 1

RECURSIVE FromHex(_)
\* Buffer.from(cleanHex, 'hex'): pairs of digits, up to the first pair that is not hexadecimal
FromHex(hx) ==
  IF Len(hx) < 2 \/ ~IsHexDigit(hx[1]) \/ ~IsHexDigit(hx[2]) THEN <<>>
  ELSE <<HexValue(hx[1]) * 16 + HexValue(hx[2])>> \o FromHex(SubSeq(hx, 3, Len(hx)))

hexToBuffer(hexString) ==
  LET cleanHex == IF Len(hexString) >= 2 /\ hexString[1] = "0" /\ hexString[2] = "x"
                  THEN SubSeq(hexString, 3, Len(hexString)) ELSE hexString
  IN FromHex(cleanHex)

HsIdle ==
  [pc |-> "idle", s |-> <<>>, t |-> <<>>, hash |-> <<>>, hashT |-> <<>>, hex |-> <<>>,
   valid |-> FALSE, back |-> <<>>]

FrameHs ==
  UNCHANGED <<now, network, chain, cache, regs, req, started, regOps, gw,
              batch, bnsDocs, registry, sweep, cron, sreg, users, moreVars>>

\* two contents arrive
HsInput(s, t) ==
  /\ hsv.pc = "idle"
  /\ hsv' = [HsIdle EXCEPT !.pc = "input", !.s = s, !.t = t]
  /\ FrameHs

\* generateContentHash of both, generateContentHashHex of the first
HsGenerate ==
  /\ hsv.pc = "input"
  /\ hsv' = [hsv EXCEPT !.pc = "hashed",
                        !.hash = generateContentHash(hsv.s),
                        !.hashT = generateContentHash(hsv.t),
                        !.hex = generateContentHashHex(hsv.s)]
  /\ FrameHs

\* validateContentHash(s, hash)
HsValidate ==
  /\ hsv.pc = "hashed"
  /\ hsv' = [hsv EXCEPT !.pc = "validated", !.valid = validateContentHash(hsv.s, hsv.hash)]
  /\ FrameHs

\* hexToBuffer(hexHash)
HsHexToBuffer ==
  /\ hsv.pc = "validated"
  /\ hsv' = [hsv EXCEPT !.pc = "done", !.back = hexToBuffer(hsv.hex)]
  /\ FrameHs

\* --------------------- verifyTweet served whole, by input form
\* the request body: { tweetContent: c }, { hash: hex } or { hash: '0x' + hex }
Forms == {"content", "hex", "0xhex"}

\* the content whose digest the ledger and the store know as "h1"
KnownContent == <<"a">>

\* hashHex: generateContentHashHex(tweetContent), or the hash as given
FormHashHex(form, c) ==
  IF form = "0xhex" THEN <<"0", "x">> \o generateContentHashHex(c)
  ELSE generateContentHashHex(c)

\* contentHash: generateContentHash(tweetContent), or hexToBuffer(hash)
FormBuffer(form, c) ==
  IF form = "content" THEN generateContentHash(c) ELSE hexToBuffer(FormHashHex(form, c))

\* the contentHash value of the cache and store documents for a hashHex
\* string, and the ledger key of a buffer
KeyOfHex(hx) ==
  IF hx = generateContentHashHex(KnownContent) THEN "h1"
  ELSE IF hx = <<"0", "x">> \o generateContentHashHex(KnownContent) THEN "0xh1"
  ELSE "other"

KeyOfBuffer(buf) == IF buf = generateContentHash(KnownContent) THEN "h1" ELSE "other"

\* the live cache entry findOne returns
LiveEntry(c, key, t) ==
  IF LiveEntries(c, key, t) = {} THEN NoEntry ELSE CHOOSE e \in LiveEntries(c, key, t) : TRUE

\* the handler from the cache lookup to the response: every outcome, with
\* the cache and the registrations it leaves
VerifyOutcomes(key, bufKey, ca, rs, ch, net, t) ==
  LET e == LiveEntry(ca, key, t)
      path == AfterCacheLookup(e)
      c1 == IF path = "cacheDelete" THEN DeleteOneCache(ca, key) ELSE ca
  IN IF path = "cacheHit"
     THEN {[resp |-> CachedResponse(key, e), cache |-> ca, regs |-> IncVerifications(rs, key)]}
     ELSE IF FindReg(rs, key) # {}
          THEN {[resp |-> StoreResponse(key, r),
                 cache |-> UpsertCache(c1, key, StoreCacheResult(r), t,
                                       [path |-> "store", resp |-> StoreResponse(key, r)]),
                 regs |-> IncVerifications(rs, key)] : r \in FindReg(rs, key)}
          ELSE {[resp |-> IF v = Null THEN ChainNegativeResponse
                          ELSE ChainPositiveResponse(key, v),
                 cache |-> UpsertCache(c1, key,
                                       IF v = Null THEN ResNeg ELSE ChainCacheResult(v), t,
                                       [path |-> "chain",
                                        resp |-> IF v = Null THEN ChainNegativeResponse
                                                 ELSE ChainPositiveResponse(key, v)]),
                 regs |-> rs] : v \in BatchAnswers(bufKey, ch, net, t)}

\* the outcomes of a request of the given form for the known content
FormOutcomes(form, ca, rs, ch, net, t) ==
  VerifyOutcomes(KeyOfHex(FormHashHex(form, KnownContent)),
                 KeyOfBuffer(FormBuffer(form, KnownContent)), ca, rs, ch, net, t)

NoProbe == [count |-> 0, form |-> "none", resp |-> NoResp]

\* one verifyTweet request of the given form, from body to response
VerifyByForm(form) ==
  /\ probe.count < MaxProbes
  /\ \E o \in FormOutcomes(form, cache, regs, chain, network, now) :
       /\ cache' = o.cache
       /\ regs' = o.regs
       /\ probe' = [count |-> probe.count + 1, form |-> form, resp |-> o.resp]
  /\ UNCHANGED <<now, network, chain, req, started, regOps, gw, sideVars, ct, rl, pop, lateVars>>

\* ------------------- Testnet VerificationController.verifyTweet
\* Registration.findOne({ contentHash, 'blockchain.status': 'confirmed' })
TestnetFindReg(rs, h) == {r \in rs : r.contentHash = h /\ r.status = "confirmed"}

\* the Testnet store step's answer: the document's fields as they are
TestnetStoreResponse(h, r) ==
  Response(200, TRUE, TRUE, "store",
           Data(h, r.authorWallet, Unset, r.blockHeight, r.registrationId, r.txId))

\* the response of the cache step: cached.result.isRegistered decides; a
\* document without result makes the read throw (caught: 500)
TestnetCachedResponse(h, e) ==
  IF e.result.kind = "missing" THEN ErrorResponse
  ELSE IF e.result.kind = "pos"
       THEN Response(200, TRUE, TRUE, "cache",
                     Data(h, e.result.authorWallet, e.result.registrationDate,
                          e.result.blockHeight, Unset, e.result.txId))
       ELSE Response(200, TRUE, FALSE, "cache", NoData)

\* findOneAndUpdate({ contentHash }, { $set: { exists, cachedAt, expiresAt } },
\* { upsert: true }): exists and cachedAt are no paths of the schema, so the
\* document gets the new expiresAt and keeps whatever result it had (none
\* when it is inserted)
TestnetNegativeUpsert(c, h, t, origin) ==
  IF EntriesOf(c, h) = {}
  THEN c \cup {Entry(h, ResMissing, t + CacheTtlMs, origin)}
  ELSE LET old == CHOOSE e \in EntriesOf(c, h) : TRUE
       IN (c \ {old}) \cup {Entry(h, old.result, t + CacheTtlMs, origin)}

\* what the Testnet Gateway can answer for h, over every outcome of its calls
TestnetAnswers(h, ch, t) == {testnetVerifyTweet(h, ch, o, t) : o \in CallOutcomes}

\* if (cached): every live entry is answered from, positive or not; the
\* analytics increment only for a positive one
TestnetCached(h, e, ca, rs) ==
  [answered |-> TRUE, resp |-> TestnetCachedResponse(h, e), cache |-> ca,
   regs |-> IF e.result.kind = "pos" THEN IncVerifications(rs, h) ELSE rs]

\* the handler from the cache lookup to the response: every outcome, with
\* the cache and the registrations it leaves. The positive chain answer is
\* stored with VerificationCache.create({ contentHash, exists, data,
\* expiresAt }): the required path result is missing, validation fails and
\* the request ends in the catch block
TestnetVerifyOutcomes(h, ca, rs, ch, t) ==
  LET e == LiveEntry(ca, h, t)
      step1 == IF e = NoEntry
               THEN [answered |-> FALSE, resp |-> NoResp, cache |-> ca, regs |-> rs]
               ELSE TestnetCached(h, e, ca, rs)
  IN IF step1.answered
     THEN {[resp |-> step1.resp, cache |-> step1.cache, regs |-> step1.regs]}
     ELSE IF TestnetFindReg(step1.regs, h) # {}
          THEN {[resp |-> TestnetStoreResponse(h, r),
                 cache |-> UpsertCache(step1.cache, h,
                                       ResPos(r.authorWallet, r.blockHeight, Unset, r.txId), t,
                                       [path |-> "store", resp |-> TestnetStoreResponse(h, r)]),
                 regs |-> IncVerifications(step1.regs, h)] : r \in TestnetFindReg(step1.regs, h)}
          ELSE {IF v = Null
                THEN [resp |-> ChainNegativeResponse,
                      cache |-> TestnetNegativeUpsert(step1.cache, h, t,
                                   [path |-> "chain", resp |-> ChainNegativeResponse]),
                      regs |-> step1.regs]
                ELSE [resp |-> ErrorResponse, cache |-> step1.cache, regs |-> step1.regs]
                  : v \in TestnetAnswers(h, ch, t)}

\* one Testnet verifyTweet request for hash h, from body to response
TestnetVerifyTweet(h) ==
  /\ probe.count < MaxProbes
  /\ \E o \in TestnetVerifyOutcomes(h, cache, regs, chain, now) :
       /\ cache' = o.cache
       /\ regs' = o.regs
       /\ probe' = [count |-> probe.count + 1, form |-> "hex", resp |-> o.resp]
  /\ UNCHANGED <<now, network, chain, req, started, regOps, gw, sideVars, ct, rl, pop, lateVars>>

\* ------------------------------ truthchain_v3 / truthchain_v2 contracts
ContractVersions == {"v3", "v2"}

\* tx-sender of a call; CONTRACT-OWNER is the tx-sender of the deployment
Principals == {"deployer", "alice"}
ContractOwner == "deployer"

\* (buff 32) arguments: two 32-byte hashes and a shorter buffer
CtHashes == {"hA", "hB", "short"}
BuffLen(h) == IF h = "short" THEN 31 ELSE 32

CtContentTypes == {"tweet", "bogus"}

IsValidContentType(contentType) ==
  contentType \in {"blog_post", "page", "media", "document", "tweet"}

IsValidHash(h) == BuffLen(h) = 32

Ok(value) == [kind |-> "ok", value |-> value]
Err(code) == [kind |-> "err", code |-> code]

\* the data vars and maps of one deployed contract (v2 has no
\* contract-active and no author-content: they keep their initial values)
Deployed ==
  [total |-> 0, active |-> TRUE,
   registry |-> [h \in CtHashes |-> NoRec], authorContent |-> {}]

RegistryEntry(sender, bns, height, contentType, id) ==
  [kind |-> "rec", author |-> sender, bnsName |-> bns, blockHeight |-> height,
   timeStamp |-> height, contentType |-> contentType, registrationId |-> id]

\* the guard without the duplicate check
RegisterGuardNoDuplicateCheck(v, st, h, contentType) ==
  IF v = "v3" /\ ~st.active THEN 103
  ELSE IF v = "v3" /\ ~IsValidHash(h) THEN 101
  ELSE IF v = "v3" /\ ~IsValidContentType(contentType) THEN 102
  ELSE 0

\* the asserts! of register-content-with-bns, in order; 0 when all pass
\* (v2 has only the duplicate check)
RegisterGuard(v, st, h, contentType) ==
  IF v = "v3" /\ ~st.active THEN 103
  ELSE IF v = "v3" /\ ~IsValidHash(h) THEN 101
  ELSE IF v = "v3" /\ ~IsValidContentType(contentType) THEN 102
  ELSE IF st.registry[h] # NoRec THEN 100
  ELSE 0

\* the counter written back without the increment
NextRegistrationIdStuck(st) == IF st.total = 0 THEN 1 ELSE st.total

\* (+ (var-get total-registrations) u1)
NextRegistrationId(st) == st.total + 1

\* register-content-with-bns: the response and the contract afterwards (of
\* the tuple v3 returns only the registration-id is kept)
RegisterContentWithBns(v, st, sender, h, contentType, bns, height) ==
  LET id == NextRegistrationId(st)
      code == RegisterGuard(v, st, h, contentType)
  IN IF code # 0 THEN [result |-> Err(code), st |-> st]
     ELSE [result |-> Ok(id),
           st |-> [st EXCEPT
                     !.registry[h] = RegistryEntry(sender, bns, height, contentType, id),
                     !.authorContent =
                        IF v = "v3" THEN @ \cup {[author |-> sender, registrationId |-> id,
                                                  hash |-> h]}
                        ELSE @,
                     !.total = id]]

\* register-content: register-content-with-bns with none
RegisterContent(v, st, sender, h, contentType, height) ==
  RegisterContentWithBns(v, st, sender, h, contentType, NoStr, height)

\* verify-content: ERR-HASH-NOT-FOUND is u104 in v3, u404 in v2
VerifyContent(v, st, h) ==
  IF st.registry[h] # NoRec THEN Ok(st.registry[h])
  ELSE Err(IF v = "v3" THEN 104 ELSE 404)

\* hash-exists
HashExists(st, h) == st.registry[h] # NoRec

\* toggle-contract-status for every caller
ToggleContractStatusAnyone(st, sender) ==
  [result |-> Ok(~st.active), st |-> [st EXCEPT !.active = ~@]]

\* toggle-contract-status (v3)
ToggleContractStatus(st, sender) ==
  IF sender # ContractOwner THEN [result |-> Err(103), st |-> st]
  ELSE [result |-> Ok(~st.active), st |-> [st EXCEPT !.active = ~@]]

NoCtCall ==
  [fn |-> "none", sender |-> "deployer", h |-> "hA", contentType |-> "tweet",
   bns |-> NoStr, result |-> Ok(0), pre |-> Deployed, height |-> 1]

\* v: the contract deployed ("none" before the deployment); st: its data
\* vars and maps; last: the last public call with the contract before it;
\* first: the entry each hash got when it was first registered; okCount: the
\* successful registrations; pausedRejects: the hashes refused while paused
CtInit ==
  [v |-> "none", st |-> Deployed, height |-> 1, calls |-> 0, last |-> NoCtCall,
   first |-> [h \in CtHashes |-> NoRec], okCount |-> 0, pausedRejects |-> {}]

FrameCt ==
  UNCHANGED <<now, network, chain, cache, regs, req, started, regOps, gw, sideVars, probe, rl, pop, lateVars>>

\* the deployment transaction of truthchain_v3 or truthchain_v2
CtDeploy(v) ==
  /\ ct.v = "none"
  /\ ct' = [ct EXCEPT !.v = v]
  /\ FrameCt

\* a contract call transaction: register-content, or
\* register-content-with-bns with a name
CtRegister(fn, sender, h, contentType) ==
  /\ ct.v # "none"
  /\ ct.calls < MaxCtCalls
  /\ LET bns == IF fn = "register-content" THEN NoStr ELSE "alice.btc"
         out == IF fn = "register-content"
                THEN RegisterContent(ct.v, ct.st, sender, h, contentType, ct.height)
                ELSE RegisterContentWithBns(ct.v, ct.st, sender, h, contentType, bns, ct.height)
     IN ct' = [ct EXCEPT
                 !.st = out.st,
                 !.calls = @ + 1,
                 !.last = [fn |-> fn, sender |-> sender, h |-> h,
                           contentType |-> contentType, bns |-> bns,
                           result |-> out.result, pre |-> ct.st, height |-> ct.height],
                 !.first[h] = IF out.result.kind = "ok" /\ @ = NoRec
                              THEN out.st.registry[h] ELSE @,
                 !.okCount = IF out.result.kind = "ok" THEN @ + 1 ELSE @,
                 !.pausedRejects = IF ~ct.st.active THEN @ \cup {h} ELSE @]
  /\ FrameCt

\* a toggle-contract-status transaction (v3 only)
CtToggle(sender) ==
  /\ ct.v = "v3"
  /\ ct.calls < MaxCtCalls
  /\ LET out == ToggleContractStatus(ct.st, sender)
     IN ct' = [ct EXCEPT
                 !.st = out.st,
                 !.calls = @ + 1,
                 !.last = [NoCtCall EXCEPT !.fn = "toggle-contract-status",
                                           !.sender = sender, !.result = out.result,
                                           !.pre = ct.st, !.height = ct.height]]
  /\ FrameCt

\* the next block
CtMine ==
  /\ ct.v # "none"
  /\ ct.height < MaxHeight
  /\ ct' = [ct EXCEPT !.height = @ + 1]
  /\ FrameCt

\* ----------------------------------------------- rate limiters
Limiters == {"global", "auth"}

\* customKeyGenerator: the wallet address of the request, else its IP
LimiterKeys == {"wallet_sp_p", "ip_1"}

\* max of the limiter
LimitOf(lim) == IF lim = "global" THEN GlobalMax ELSE AuthMax

\* hits, resetAt: the store's counter and window end per key; admitted: the
\* requests of the current window that were passed on (history); status: the
\* last response of the limiter
RlInit ==
  [hits |-> [lim \in Limiters |-> [k \in LimiterKeys |-> 0]],
   resetAt |-> [lim \in Limiters |-> [k \in LimiterKeys |-> 0]],
   admitted |-> [lim \in Limiters |-> [k \in LimiterKeys |-> 0]],
   status |-> 0]

\* the store's increment: a new window starts when the old one has ended
HitsAfter(lim, k, store, t) == IF t >= store.resetAt[lim][k] THEN 1 ELSE store.hits[lim][k] + 1

\* the limiter's decision: 429 from rateLimitExceededHandler when the hits
\* of the window exceed max, else the request is passed on
LimiterStatus(lim, totalHits) == IF totalHits > LimitOf(lim) THEN 429 ELSE 200

FrameRl ==
  UNCHANGED <<network, chain, cache, regs, req, started, regOps, gw, sideVars, probe, ct, pop, lateVars>>

\* a request with key k reaches limiter lim
RlRequest(lim, k) ==
  /\ rl.hits[lim][k] < LimitOf(lim) + MaxOverLimit
  /\ k = "ip_1" => rl.hits[lim][k] < MaxOtherKey
  /\ LET newWindow == now >= rl.resetAt[lim][k]
         totalHits == HitsAfter(lim, k, rl, now)
         status == LimiterStatus(lim, totalHits)
     IN rl' = [rl EXCEPT
                 !.hits[lim][k] = totalHits,
                 !.resetAt[lim][k] = IF newWindow THEN now + RateWindowMs ELSE @,
                 !.admitted[lim][k] = (IF newWindow THEN 0 ELSE @)
                                      + (IF status = 200 THEN 1 ELSE 0),
                 !.status = status]
  /\ UNCHANGED now
  /\ FrameRl

\* the 15-minute window passes
RlWindowPass ==
  /\ now < MaxWindows * RateWindowMs
  /\ now' = now + RateWindowMs
  /\ UNCHANGED rl
  /\ FrameRl

\* ------------------------------------------------------- environment
\* time passes
Tick ==
  /\ now < MaxTicks * TickMs
  /\ now' = now + TickMs
  /\ UNCHANGED <<network, chain, cache, regs, req, started, regOps, gw, sideVars, moreVars>>

\* the TTL index ({ expiresAt: 1 }, expireAfterSeconds: 0) removes an
\* expired document some time after it expired
TtlReap(e) ==
  /\ e \in cache
  /\ e.expiresAt <= now
  /\ cache' = cache \ {e}
  /\ UNCHANGED <<now, network, chain, regs, req, started, regOps, gw, sideVars, moreVars>>

\* documents whose payload this controller rejects, left in the collection
\* by another writer (the Testnet controller's negative upsert stores no
\* result at all): none, or one written just before the start
LegacyCaches ==
  {{}} \cup {{Entry(h, res, CacheTtlMs, [path |-> "other", resp |-> NoResp])} :
               h \in Hashes, res \in {ResMissing, ResNonBool}}

\* ------------------------------------ outbound calls and their waiting
\* The handlers await their outbound calls: hashExistsOnContract awaits
\* fetchCallReadOnlyFunction({...}) and fetchWalletBNSNames awaits
\* fetch(url, { headers }).  Neither call is given a signal, a timeout
\* option or a racing timer, so the await ends only when the dependency
\* answers or the transport fails; a dependency that keeps the connection
\* open and stays silent leaves the promise pending.

\* the tasks that wait on outbound calls: verifyTweet requests on the
\* ledger RPC, validateStaleRegistrations runs on the name registry
ExtRequests == {"verify1", "verify2"}

ExtSweeps == {"sweep1", "sweep2"}

ExtTasks == ExtRequests \cup ExtSweeps

\* what becomes of one outbound call
CallFates == {"responds", "rejects", "never"}

ExtIdle == [pc |-> "idle", left |-> 0, fate |-> "none", failed |-> 0]

ExtInit == [t \in ExtTasks |-> ExtIdle]

FrameExt ==
  UNCHANGED <<now, network, chain, cache, regs, req, started, regOps, gw, sideVars, probe, ct, rl, pop, auth, cr>>

\* a request reaches its first contract query, or a timer starts a run that
\* reaches its first registry query: the call is sent and awaited
ExtStart(t, n, fate) ==
  /\ ext[t].pc = "idle"
  /\ ext' = [ext EXCEPT ![t] = [pc |-> "awaiting", left |-> n, fate |-> fate, failed |-> 0]]
  /\ FrameExt

\* the awaited call settles: a rejection is caught and read as "no" (false,
\* or an empty name list), and the task goes on to its next call or ends
ExtSettle(t, fate) ==
  /\ ext[t].pc = "awaiting"
  /\ ext[t].fate # "never"
  /\ LET failed == ext[t].failed + (IF ext[t].fate = "rejects" THEN 1 ELSE 0)
     IN  ext' = [ext EXCEPT ![t] =
                   IF ext[t].left > 1
                   THEN [pc |-> "awaiting", left |-> ext[t].left - 1, fate |-> fate, failed |-> failed]
                   ELSE [pc |-> "done", left |-> 0, fate |-> "none", failed |-> failed]]
  /\ FrameExt

\* ------------------------------- AuthController / WalletAuthController
\* Both controllers keep their sessions in a private static Map of their
\* own class; WalletAuthController also keeps the challenges.  Every handler
\* runs its Map reads and writes before its first await, so one handler is
\* one step.  The User documents the handlers also write (user.addSession,
\* errors swallowed) take no part in the session checks and are left out.
\* Each deployment's routes name both controllers; the one whose file is
\* not part of a deployment's sources is modelled by the other deployment's
\* class of the same name.

Controllers == {"wallet", "legacy"}

Deployments == {"mainnet", "testnet"}

\* routes/index.ts: the controller bound to each /auth endpoint
Route(dep, endpoint) ==
  CASE endpoint = "getChallenge" -> "wallet"
    [] endpoint = "loginWithWallet" -> "wallet"
    [] endpoint = "createSession" -> "legacy"
    [] endpoint = "validateSession" -> IF dep = "mainnet" THEN "legacy" ELSE "wallet"
    [] endpoint = "logout" -> IF dep = "mainnet" THEN "none" ELSE "wallet"

Keys == {"k1", "k2"}

\* publicKeyToAddress(version, publicKey)
publicKeyToAddress(version, k) ==
  CASE version = "mainnet" /\ k = "k1" -> "SP1"
    [] version = "mainnet" /\ k = "k2" -> "SP2"
    [] version = "testnet" /\ k = "k1" -> "ST1"
    [] version = "testnet" /\ k = "k2" -> "ST2"

Addresses == {publicKeyToAddress(v, k) : v \in Deployments, k \in Keys}

NoAddr == "none"

\* the addresses the clients send: the two addresses of one key
AuthWallets == {publicKeyToAddress(v, "k1") : v \in Deployments}

\* challenge messages carry the address, the time and a fresh nonce: message
\* n is the one built with the n-th nonce, 0 a text no challenge ever had
Messages == 0..MaxChallenges

\* a signature is made by one key over one message
Signatures == [signer : Keys, msg : Messages]

\* verifyMessageSignature({ message, publicKey, signature }) of
\* @stacks/encryption, imported by WalletAuthController
verifyMessageSignature(message, k, sig) == sig.signer = k /\ sig.msg = message

NoFields == [msg |-> 0, wallet |-> NoAddr, key |-> "none", sig |-> [signer |-> "none", msg |-> 0]]

\* the last response sent; a successful login also keeps the request's fields
NoAuthResp == [op |-> "none", c |-> "none", id |-> 0, status |-> 0, valid |-> FALSE, f |-> NoFields]

AuthInit ==
  [dep |-> "none", t |-> 0, ticks |-> 0,
   challenges |-> {}, nextNonce |-> 1,
   sessions |-> [c \in Controllers |-> {}], nextId |-> 1,
   timers |-> {}, loggedOut |-> {}, issued |-> {},
   minted |-> [m \in Messages |-> 0],
   last |-> NoAuthResp]

FrameAuth ==
  UNCHANGED <<now, network, chain, cache, regs, req, started, regOps, gw, sideVars, probe, ct, rl, pop, ext, cr>>

\* the process of one deployment starts; NETWORK is set to its network
AuthBoot(dep) ==
  /\ auth.dep = "none"
  /\ auth' = [auth EXCEPT !.dep = dep]
  /\ FrameAuth

\* new Date() > x.expiresAt
ExpiredNever(t, x) == FALSE

Expired(t, x) == t > x.expiresAt

cleanupExpiredChallenges(chs, t) == {ch \in chs : ~Expired(t, ch)}

cleanupExpiredSessions(ss, t) == {s \in ss : ~Expired(t, s)}

AuthAnswer(op, c, id, status, valid, f) ==
  [op |-> op, c |-> c, id |-> id, status |-> status, valid |-> valid, f |-> f]

\* GET /auth/wallet/challenge?address=...
getChallenge(address) ==
  /\ auth.dep # "none"
  /\ auth.nextNonce <= MaxChallenges
  /\ LET ch == [address |-> address, msg |-> auth.nextNonce,
                expiresAt |-> auth.t + ChallengeExpirationMs]
     IN  auth' = [auth EXCEPT
                    !.challenges = cleanupExpiredChallenges(auth.challenges \cup {ch}, auth.t),
                    !.nextNonce = @ + 1,
                    !.last = AuthAnswer("getChallenge", "wallet", 0, 200, FALSE, NoFields)]
  /\ FrameAuth

\* verifyWalletSignature: the address must be one of the two addresses of
\* the public key; the signature is logged and not looked at
verifyWalletSignature(dep, address, message, k, sig) ==
  LET mainnetAddress == publicKeyToAddress("mainnet", k)
      testnetAddress == publicKeyToAddress("testnet", k)
  IN  IF address # mainnetAddress /\ address # testnetAddress
      THEN [isValid |-> FALSE, networkAddress |-> address]
      ELSE [isValid |-> TRUE,
            networkAddress |-> IF dep = "mainnet" THEN mainnetAddress ELSE testnetAddress]

\* the challenges left once the matching one was found
ConsumeChallengeKeep(chs, ch) == chs

ConsumeChallenge(chs, ch) == chs \ {ch}

NewSession(id, wallet, t) ==
  [id |-> id, wallet |-> wallet, createdAt |-> t,
   expiresAt |-> t + SessionExpirationMs, active |-> TRUE]

\* POST /auth/login/wallet
loginWithWallet(address, sig, message, k) ==
  /\ auth.dep # "none"
  /\ LET f == [msg |-> message, wallet |-> address, key |-> k, sig |-> sig]
         v == verifyWalletSignature(auth.dep, address, message, k, sig)
         matching == {ch \in auth.challenges : ch.address = address /\ ch.msg = message}
     IN  IF ~v.isValid
         THEN auth' = [auth EXCEPT !.last = AuthAnswer("loginWithWallet", "wallet", 0, 401, FALSE, NoFields)]
         ELSE IF matching = {}
         THEN auth' = [auth EXCEPT !.last = AuthAnswer("loginWithWallet", "wallet", 0, 401, FALSE, NoFields)]
         ELSE LET ch == CHOOSE x \in matching : TRUE
                  left == ConsumeChallenge(auth.challenges, ch)
              IN  IF Expired(auth.t, ch)
                  THEN auth' = [auth EXCEPT
                                  !.challenges = left,
                                  !.last = AuthAnswer("loginWithWallet", "wallet", 0, 401, FALSE, NoFields)]
                  ELSE /\ auth.nextId <= MaxSessions
                       /\ auth' = [auth EXCEPT
                                     !.challenges = left,
                                     !.sessions["wallet"] =
                                        cleanupExpiredSessions(
                                          @ \cup {NewSession(auth.nextId, v.networkAddress, auth.t)}, auth.t),
                                     !.nextId = @ + 1,
                                     !.issued = @ \cup {[id |-> auth.nextId, c |-> "wallet",
                                                           expiresAt |-> auth.t + SessionExpirationMs]},
                                     !.minted[message] = @ + 1,
                                     !.last = AuthAnswer("loginWithWallet", "wallet", auth.nextId, 200, FALSE, f)]
  /\ FrameAuth

\* POST /auth/login/wallet without one of its four fields
loginMissingFields ==
  /\ auth.dep # "none"
  /\ auth' = [auth EXCEPT !.last = AuthAnswer("loginWithWallet", "wallet", 0, 400, FALSE, NoFields)]
  /\ FrameAuth

\* POST /auth/session
createSession(walletAddress) ==
  /\ auth.dep # "none"
  /\ auth.nextId <= MaxSessions
  /\ auth' = [auth EXCEPT
                !.sessions["legacy"] =
                   cleanupExpiredSessions(@ \cup {NewSession(auth.nextId, walletAddress, auth.t)}, auth.t),
                !.nextId = @ + 1,
                !.issued = @ \cup {[id |-> auth.nextId, c |-> "legacy",
                                      expiresAt |-> auth.t + SessionExpirationMs]},
                !.last = AuthAnswer("createSession", "legacy", auth.nextId, 201, FALSE, NoFields)]
  /\ FrameAuth

SessionsOf(ss, id) == {s \in ss : s.id = id}

\* validateSession of controller c, with the optional walletAddress query
\* that only AuthController reads
validateSession(c, id, q) ==
  LET found == SessionsOf(auth.sessions[c], id)
      f == NoFields
  IN  IF found = {}
      THEN [auth EXCEPT !.last = AuthAnswer("validateSession", c, id, 404, FALSE, f)]
      ELSE LET session == CHOOSE s \in found : TRUE
           IN  IF Expired(auth.t, session)
               THEN [auth EXCEPT !.sessions[c] = @ \ {session},
                                 !.last = AuthAnswer("validateSession", c, id, 401, FALSE, f)]
               ELSE IF ~session.active
               THEN [auth EXCEPT !.last = AuthAnswer("validateSession", c, id, 401, FALSE, f)]
               ELSE IF c = "legacy" /\ q # NoAddr /\ session.wallet # q
               THEN [auth EXCEPT !.last = AuthAnswer("validateSession", c, id, 403, FALSE, f)]
               ELSE [auth EXCEPT !.last = AuthAnswer("validateSession", c, id, 200, TRUE, f)]

\* GET /auth/session/:sessionId
GetSession(id, q) ==
  /\ auth.dep # "none"
  /\ auth' = validateSession(Route(auth.dep, "validateSession"), id, q)
  /\ FrameAuth

\* logout of controller c: the session is marked inactive and a timer is
\* set that deletes it a second later
logout(c, id) ==
  LET found == SessionsOf(auth.sessions[c], id)
  IN  IF found = {}
      THEN [auth EXCEPT !.last = AuthAnswer("logout", c, id, 404, FALSE, NoFields)]
      ELSE LET session == CHOOSE s \in found : TRUE
           IN  [auth EXCEPT !.sessions[c] = (@ \ {session}) \cup {[session EXCEPT !.active = FALSE]},
                            !.timers = @ \cup {[c |-> c, id |-> id]},
                            !.loggedOut = @ \cup {id},
                            !.last = AuthAnswer("logout", c, id, 200, FALSE, NoFields)]

\* DELETE /auth/session/:sessionId, where the deployment has the route
DeleteSession(id) ==
  /\ auth.dep # "none"
  /\ Route(auth.dep, "logout") \in Controllers
  /\ auth' = logout(Route(auth.dep, "logout"), id)
  /\ FrameAuth

\* the timer set by logout fires (the second it waits is not measured
\* against the coarse clock)
LogoutTimerFires ==
  /\ \E tm \in auth.timers :
       auth' = [auth EXCEPT !.timers = @ \ {tm},
                            !.sessions[tm.c] = {s \in @ : s.id # tm.id},
                            !.last = NoAuthResp]
  /\ FrameAuth

AuthSteps == {1, ChallengeExpirationMs, SessionExpirationMs}

AuthTick(dt) ==
  /\ auth.dep # "none"
  /\ auth.ticks < MaxAuthTicks
  /\ auth' = [auth EXCEPT !.t = @ + dt, !.ticks = @ + 1, !.last = NoAuthResp]
  /\ FrameAuth

SessionIds == 1..MaxSessions

\* ----------------------------------------------------- specifications
LateInit ==
  /\ ext = ExtInit
  /\ auth = AuthInit
  /\ cr = CrIdle

Init ==
  /\ now = 0
  /\ network = "mainnet"
  /\ chain = EmptyChain
  /\ cache \in LegacyCaches
  /\ regs = {}
  /\ req = [s \in Slots |-> Idle]
  /\ started = 0
  /\ regOps = 0
  /\ gw = NoCall
  /\ batch = BatchIdle
  /\ bnsDocs = [id \in DocIds |-> NoDoc]
  /\ registry = [w \in Wallets |-> <<>>]
  /\ sweep = SweepIdle
  /\ cron = CronIdle
  /\ sreg = [s \in Slots |-> SrIdle]
  /\ users = [w \in Wallets |-> NoUser]
  /\ hsv = HsIdle
  /\ probe = NoProbe
  /\ ct = CtInit
  /\ rl = RlInit
  /\ pop = PopInit
  /\ LateInit

\* the initial state without legacy cache documents
InitOne == Init /\ cache = {}

Next ==
  \/ \E s \in Slots : VerifyBadRequest(s)
  \/ \E s \in Slots, h \in Hashes : VerifyStart(s, h)
  \/ \E s \in Slots : CacheLookup(s)
  \/ \E s \in Slots : CacheDelete(s)
  \/ \E s \in Slots : CacheHit(s)
  \/ \E s \in Slots : StoreLookup(s)
  \/ \E s \in Slots : StoreCacheWrite(s)
  \/ \E s \in Slots : StoreRespond(s)
  \/ \E s \in Slots : ChainQuery(s)
  \/ \E s \in Slots : ChainRespond(s)
  \/ \E w \in Wallets, h \in Hashes, o \in ExOutcomes : SecureRegisterTweet(w, h, o)
  \/ \E h \in Hashes : ConfirmRegistration(h)
  \/ \E v \in VersionSet, h \in Hashes : LedgerRegister(v, h, "SP_P", MaxChainRegs)
  \/ Tick
  \/ \E e \in cache : TtlReap(e)

Spec == Init /\ [][Next]_vars

InitGateway ==
  /\ now = 0
  /\ network \in Networks
  /\ chain = EmptyChain
  /\ cache = {}
  /\ regs = {}
  /\ req = [s \in Slots |-> Idle]
  /\ started = 0
  /\ regOps = 0
  /\ gw = NoCall
  /\ batch = BatchIdle
  /\ bnsDocs = [id \in DocIds |-> NoDoc]
  /\ registry = [w \in Wallets |-> <<>>]
  /\ sweep = SweepIdle
  /\ cron = CronIdle
  /\ sreg = [s \in Slots |-> SrIdle]
  /\ users = [w \in Wallets |-> NoUser]
  /\ hsv = HsIdle
  /\ probe = NoProbe
  /\ ct = CtInit
  /\ rl = RlInit
  /\ pop = PopInit
  /\ LateInit

NextGateway ==
  \/ \E h \in Hashes : GwVerifyTweet(h)
  \/ \E v \in VersionSet, h \in Hashes, o \in CallOutcomes : GwVerifyOnContract(v, h, o)
  \/ \E h \in Hashes, o \in ExOutcomes : GwHashExists(h, o)
  \/ \E h \in Hashes, o \in CallOutcomes : GwTestnetVerifyTweet(h, o)
  \/ \E h \in Hashes, o \in ExOutcomes : GwTestnetHashExists(h, o)
  \/ \E svc \in {"Mainnet", "Testnet"}, h \in Hashes, w \in Wallets,
        mk \in MakeOutcomes, bc \in BroadcastOutcomes : GwRegisterTweet(svc, h, w, mk, bc)
  \/ \E svc \in {"Mainnet", "Testnet"}, o \in ExOutcomes : GwGetContractStats(svc, o)
  \/ \E svc \in {"Mainnet", "Testnet"}, hs \in SUBSET Hashes, o \in ExOutcomes :
        GwBatchVerify(svc, hs, o)
  \/ \E v \in VersionSet, h \in Hashes, w \in Wallets :
        LedgerRegister(v, h, w, GwMaxChainRegs)
  \/ Tick

SpecGateway == InitGateway /\ [][NextGateway]_vars

\* one batchVerify request, over a ledger that can change
NextBatch ==
  \/ \E body \in BatchBodies : BatchStart(body)
  \/ BatchItem
  \/ BatchRespond
  \/ \E v \in VersionSet, h \in Hashes : LedgerRegister(v, h, "SP_P", MaxChainRegs)

SpecBatch == InitGateway /\ [][NextBatch]_vars

\* the Validator: registrations with a name, a registry that changes,
\* sweeps and days
NextBns ==
  \/ \E id \in DocIds : RegisterWithBns(id)
  \/ \E w \in Wallets, names \in NameLists : RegistryChange(w, names)
  \/ SweepStart
  \/ \E o \in FetchOutcomes, so \in StoreOutcomes : SweepItem(o, so)
  \/ SweepEnd
  \/ DayTick

SpecBns == Init /\ [][NextBns]_vars

\* the cron: start and stop calls, timers firing, the runs they start
NextCron ==
  \/ StartCron
  \/ StopCron
  \/ TimeoutFires
  \/ IntervalFires
  \/ \E id \in DocIds : RegisterWithBns(id)
  \/ \E o \in FetchOutcomes, so \in StoreOutcomes : SweepItem(o, so)
  \/ SweepEnd

SpecCron == Init /\ [][NextCron]_vars

\* concurrent secureRegisterTweet requests and the ledger
NextRegister ==
  \/ \E s \in Slots, w \in Wallets, c \in Contents : SrStart(s, w, c)
  \/ \E s \in Slots : SrFind(s)
  \/ \E s \in Slots, o \in ExOutcomes : SrHashExists(s, o)
  \/ \E s \in Slots : SrUserUpsert(s)
  \/ \E s \in Slots, storeOnIPFS \in BOOLEAN, o \in ExOutcomes : SrIpfs(s, storeOnIPFS, o)
  \/ \E s \in Slots : SrSave(s)
  \/ \E s \in Slots : SrUserInc(s)
  \/ \E v \in VersionSet, h \in Hashes : LedgerRegister(v, h, "SP_P", MaxChainRegs)

SpecRegister == Init /\ [][NextRegister]_vars

\* registration and confirmation requests, valid and invalid, and the ledger
NextStats ==
  \/ NextRegister
  \/ \E s \in Slots : SrBadRequest(s)
  \/ \E h \in Hashes : confirmRegistration(h)
  \/ confirmBadRequest

SpecStats == InitOne /\ [][NextStats]_vars

\* HashService on every pair of short strings
NextHash ==
  \/ \E s \in Strings, t \in Strings : HsInput(s, t)
  \/ HsGenerate
  \/ HsValidate
  \/ HsHexToBuffer

SpecHash == InitGateway /\ [][NextHash]_vars

\* verifyTweet requests of the three input forms, registrations, the ledger
NextForms ==
  \/ \E form \in Forms : VerifyByForm(form)
  \/ \E w \in Wallets, h \in Hashes, o \in ExOutcomes : SecureRegisterTweet(w, h, o)
  \/ \E h \in Hashes : ConfirmRegistration(h)
  \/ \E v \in VersionSet, h \in Hashes : LedgerRegister(v, h, "SP_P", MaxChainRegs)
  \/ Tick

SpecForms == Init /\ [][NextForms]_vars

\* transactions on the two contracts
NextContract ==
  \/ \E v \in ContractVersions : CtDeploy(v)
  \/ \E fn \in {"register-content", "register-content-with-bns"}, sender \in Principals,
        h \in CtHashes, contentType \in CtContentTypes :
          CtRegister(fn, sender, h, contentType)
  \/ \E sender \in Principals : CtToggle(sender)
  \/ CtMine

SpecContract == InitOne /\ [][NextContract]_vars

\* a registration request that arrives while two verifyTweet requests for a
\* hash without cache entry and without Registration are being handled
RaceSecureRegisterTweet(w, h, o) ==
  /\ req[2].pc # "idle"
  /\ SecureRegisterTweet(w, h, o)

\* two verifyTweet requests started on an empty cache and an empty store
NextRace ==
  \/ \E s \in Slots, h \in Hashes : VerifyStart(s, h)
  \/ \E s \in Slots : CacheLookup(s)
  \/ \E s \in Slots : CacheDelete(s)
  \/ \E s \in Slots : CacheHit(s)
  \/ \E s \in Slots : StoreLookup(s)
  \/ \E s \in Slots : StoreCacheWrite(s)
  \/ \E s \in Slots : StoreRespond(s)
  \/ \E s \in Slots : ChainQuery(s)
  \/ \E s \in Slots : ChainRespond(s)
  \/ \E w \in Wallets, h \in Hashes, o \in ExOutcomes : RaceSecureRegisterTweet(w, h, o)
  \/ \E h \in Hashes : ConfirmRegistration(h)
  \/ \E v \in VersionSet, h \in Hashes : LedgerRegister(v, h, "SP_P", MaxChainRegs)
  \/ Tick
  \/ \E e \in cache : TtlReap(e)

SpecRace == InitOne /\ [][NextRace]_vars

\* Testnet verifyTweet requests, registrations and the clock
NextTestnet ==
  \/ \E h \in Hashes : TestnetVerifyTweet(h)
  \/ \E w \in Wallets, h \in Hashes, o \in ExOutcomes : SecureRegisterTweet(w, h, o)
  \/ \E h \in Hashes : ConfirmRegistration(h)
  \/ \E v \in VersionSet, h \in Hashes : LedgerRegister(v, h, "SP_P", MaxChainRegs)
  \/ Tick
  \/ \E e \in cache : TtlReap(e)

SpecTestnet == InitOne /\ [][NextTestnet]_vars

\* sweeps over a collection larger than the batch, started by hand or by
\* the cron at any half day
NextPop ==
  \/ \E order \in FindOrders, cronRun \in BOOLEAN : PopSweepBegin(order, cronRun)
  \/ \E status \in {"valid", "transferred", "no-longer-owned"}, so \in StoreOutcomes :
        PopSweepItem(status, so)
  \/ PopSweepEnd
  \/ PopTick(HalfDayMs)

SpecPop == InitOne /\ [][NextPop]_vars

\* the running cron: a sweep when the timer has fired, its turns with
\* successful lookups and updates, and 24 hours until the timer fires again
PopCronSweep == \E order \in FindOrders : PopSweepBegin(order, TRUE)
PopCronTurn == \E status \in {"valid", "transferred", "no-longer-owned"} : PopSweepItem(status, "ok")
PopCronWait == ~pop.due /\ PopTick(ValidationIntervalMs)

NextPopCron ==
  \/ PopCronSweep
  \/ PopCronTurn
  \/ PopSweepEnd
  \/ PopCronWait

\* the timers keep firing and every started run goes on to its end
SpecPopCron ==
  /\ InitOne
  /\ [][NextPopCron]_vars
  /\ WF_vars(PopCronSweep)
  /\ WF_vars(PopCronTurn)
  /\ WF_vars(PopSweepEnd)
  /\ WF_vars(PopCronWait)

\* requests through the global and the authentication limiter
NextLimiter ==
  \/ \E lim \in Limiters, k \in LimiterKeys : RlRequest(lim, k)
  \/ RlWindowPass

SpecLimiter == InitOne /\ [][NextLimiter]_vars

\* ------------------------------------------- properties: the Gateway
\* the hash-exists calls of the last Gateway call, in the order made
ExistsCalls == SelectSeq(gw.calls, LAMBDA c : c.fn = "hash-exists")

\* the contract versions the last Gateway call asked, in order
Queried == [i \in 1..Len(ExistsCalls) |-> ExistsCalls[i].ver]

\* the hash-exists call c answered true
ReportedTrue(c) == c.outcome = "ok" /\ gw.ledger[c.ver][gw.h] # NoRec

IsMainnetVerify == gw.svc = "Mainnet" /\ gw.method = "verifyTweet"

C5_PrimaryAlwaysWins ==
  (IsMainnetVerify /\ gw.ledger["v3"][gw.h] # NoRec)
    => /\ Queried = <<"v3">>
       /\ gw.result \in {FullRecord("v3", gw.h, gw.ledger), DegradedRecord(gw.at)}

\* C5 (amended): when the primary contract's hash-exists call answers true,
\* verifyTweet returns the record obtained from the primary contract (full,
\* or degraded when the detail fetch fails) and asks no older version; an
\* older version is asked only when the hash-exists call of every newer
\* version answered false or failed, and the record returned is the one of
\* the last version asked.
C5_PrimaryAuthoritative ==
  IsMainnetVerify =>
    /\ ReportedTrue(ExistsCalls[1])
         => /\ Queried = <<"v3">>
            /\ gw.result \in {FullRecord("v3", gw.h, gw.ledger), DegradedRecord(gw.at)}
    /\ \A i \in 2..Len(ExistsCalls) : \A j \in 1..(i - 1) : ~ReportedTrue(ExistsCalls[j])
    /\ gw.result # Null
         => /\ ReportedTrue(ExistsCalls[Len(ExistsCalls)])
            /\ gw.result \in {FullRecord(Queried[Len(Queried)], gw.h, gw.ledger),
                              DegradedRecord(gw.at)}

\* v3 and v2 hold the hash under different authors; v3's record is returned
C5_Witness ==
  /\ IsMainnetVerify
  /\ network = "mainnet"
  /\ gw.ledger["v3"][gw.h] # NoRec /\ gw.ledger["v2"][gw.h] # NoRec
  /\ gw.ledger["v3"][gw.h].author # gw.ledger["v2"][gw.h].author
  /\ gw.result = FullRecord("v3", gw.h, gw.ledger)

\* C10: no public method of BlockchainService (Mainnet or Testnet) lets an
\* exception out: a failing call makes registerTweet answer
\* {success: false, error}, hashExists answer false, and verifyTweet,
\* getContractStats and batchVerify answer a value or null.
C10_NoThrow ==
  /\ gw.result # Raise
  /\ gw.method = "hashExists"
       => /\ gw.result.kind = "bool"
          /\ gw.calls[1].outcome = "throw" => gw.result = BoolRes(FALSE)
  /\ gw.method = "verifyTweet" => (gw.result = Null \/ gw.result.kind = "rec")
  /\ gw.method = "registerTweet"
       => /\ gw.result.kind = "regres"
          /\ (\E i \in 1..Len(gw.calls) : gw.calls[i].outcome \in {"throw", "error"})
               => (~gw.result.success /\ gw.result.error # NoStr)
  /\ gw.method \in {"getContractStats", "batchVerify"}
       => IF gw.calls[1].outcome = "throw" THEN gw.result = Null
          ELSE gw.result.kind = "json"

\* the primary hash-exists call threw and hashExists answered false
C10_Witness ==
  /\ gw.method = "hashExists"
  /\ gw.calls[1].outcome = "throw"
  /\ gw.ledger["v3"][gw.h] # NoRec
  /\ gw.result = BoolRes(FALSE)

IsVerifyOne ==
  \/ gw.svc = "Mainnet" /\ gw.method = "verifyOnContract"
  \/ gw.svc = "Testnet" /\ gw.method = "verifyTweet"

\* C11: a verify on one contract (Mainnet verifyOnContract, Testnet
\* verifyTweet) answers null exactly when the hash-exists call answered
\* false or failed; when it answered true the answer is the contract's
\* record if the verify-content call succeeds and, if that call throws or
\* is unsuccessful, the record with author 'unknown', blockHeight 0,
\* registrationId 0 and the current time (in seconds) as timestamp; it is
\* never an exception.
C11_DegradedRecord ==
  IsVerifyOne =>
    /\ gw.result # Raise
    /\ gw.result = Null <=> ~ReportedTrue(gw.calls[1])
    /\ ReportedTrue(gw.calls[1])
         => /\ Len(gw.calls) = 2
            /\ gw.calls[2].fn = "verify-content"
            /\ gw.calls[2].outcome = "ok"
                 => gw.result = FullRecord(gw.calls[1].ver, gw.h, gw.ledger)
            /\ gw.calls[2].outcome \in {"throw", "unsuccessful"}
                 => gw.result = [kind |-> "rec", author |-> "unknown", blockHeight |-> 0,
                                 timestamp |-> gw.at \div 1000, registrationId |-> 0]

\* the hash is there, the detail fetch threw after time had passed, and the
\* degraded record came back
C11_Witness ==
  /\ gw.svc = "Mainnet" /\ gw.method = "verifyOnContract"
  /\ ReportedTrue(gw.calls[1])
  /\ gw.calls[2].outcome = "throw"
  /\ gw.at > 0
  /\ gw.result.author = "unknown"
  /\ gw.result.timestamp = gw.at \div 1000

\* ------------------------------------------ properties: the resolver
AllSteps == <<"cache", "store", "chain">>

IsDone(s) == req[s].pc = "done" /\ req[s].h \in Hashes /\ req[s].steps # <<>>

\* C1: a request that finds a live negative entry while the store holds a
\* confirmed Registration of the hash deletes the entry, asks the store and
\* answers verified: true from it, without a Gateway call.
C1_StateNegativeNonBlocking ==
  \A s \in Slots :
    (IsDone(s) /\ req[s].confirmedAtLookup)
      => /\ req[s].resp.status = 200
         /\ req[s].resp.verified
         /\ req[s].resp.path = "store"
         /\ req[s].steps = <<"cache", "store">>
         /\ req[s].gwCalls = 0

C1_StepNegativeDeleted ==
  \A s \in Slots :
    (req[s].pc = "cacheDelete" /\ req[s].cachedKind = "neg" /\ req'[s].pc = "store")
      => /\ req[s].cached \notin cache'
         /\ EntriesOf(cache', req[s].h) = {}

C2_CacheRoundTrip ==
  \A s \in Slots :
    (IsDone(s) /\ req[s].resp.path = "cache" /\ req[s].servedOrigin # NoResp
       /\ req[s].servedOrigin.path = "chain-pos")
      => /\ req[s].gwCalls = 0
         /\ req[s].resp.verified = req[s].servedOrigin.verified
         /\ req[s].resp.data = req[s].servedOrigin.data

\* C3: a request takes its steps in the order cache, store, Gateway; a live
\* positive cache entry answers it with no store lookup and no Gateway call;
\* a Registration found by the store step is written to the cache as a
\* positive entry expiring one hour after the write and answers it with no
\* Gateway call; the Gateway is asked (once) only after neither of the
\* earlier steps gave a positive answer.
C3_StateOrder ==
  \A s \in Slots :
    /\ req[s].steps \in {<<>>, <<"cache">>, <<"cache", "store">>, AllSteps}
    /\ req[s].cachedKind = "pos"
         => /\ req[s].steps = <<"cache">>
            /\ req[s].gwCalls = 0
            /\ req[s].pc = "done" => req[s].resp.path = "cache"
    /\ req[s].regKind \in {"pending", "confirmed"}
         => /\ req[s].steps = <<"cache", "store">>
            /\ req[s].gwCalls = 0
            /\ req[s].pc = "done" => req[s].resp.path = "store"
    /\ req[s].gwCalls > 0
         => /\ req[s].gwCalls = 1
            /\ req[s].steps = AllSteps
            /\ req[s].cachedKind \in {"none", "neg", "missing", "nonbool"}
            /\ req[s].regKind = "none"

C3_StepStoreWrite ==
  \A s \in Slots :
    (req[s].pc = "storeWrite" /\ req'[s].pc = "storeRespond")
      => /\ Cardinality(EntriesOf(cache', req[s].h)) = 1
         /\ \A e \in EntriesOf(cache', req[s].h) :
              /\ e.result = StoreCacheResult(req[s].reg)
              /\ e.result.kind = "pos"
              /\ e.expiresAt = now + CacheTtlMs

\* C3: cache, store, Gateway in this order, stopping at the first positive (the state part holds in every
\* state, the step part at every step)
C3_StrictOrder == []C3_StateOrder /\ [][C3_StepStoreWrite]_vars

\* one request answered from the cache alone, another from the Gateway
\* after the cache and the store
C3_Witness ==
  \E s, u \in Slots :
    /\ IsDone(s) /\ req[s].cachedKind = "pos" /\ req[s].resp.path = "cache"
    /\ IsDone(u) /\ req[u].steps = AllSteps /\ req[u].resp.path = "chain-pos"

\* C6 (as stated): a verification requested after wallet P registered the
\* hash on chain answers verified: true with author P, whatever
\* secureRegisterTweet and confirmRegistration requests came before (stated
\* for the answers given without a Gateway call, where no failure of the
\* ledger's API can be the cause).
C6_VerifyAfterRegister ==
  \A s \in Slots :
    (IsDone(s) /\ req[s].chainAuthorAtStart # "none" /\ req[s].gwCalls = 0)
      => /\ req[s].resp.verified
         /\ req[s].resp.data.author = req[s].chainAuthorAtStart

\* C7: when the cache holds no live positive entry, the store no confirmed
\* or pending Registration and no contract version reports the hash, the
\* answer is 200, success: true, verified: false, and the request leaves
\* exactly one cache entry for the hash, negative, expiring one hour after
\* the write.
C7_StateNotFound ==
  \A s \in Slots :
    (IsDone(s) /\ req[s].cachedKind # "pos" /\ req[s].regKind = "none"
       /\ req[s].verKind = "null")
      => /\ req[s].resp.status = 200
         /\ req[s].resp.success
         /\ ~req[s].resp.verified
         /\ req[s].resp.data = NoData

C7_StepNegativeWrite ==
  \A s \in Slots :
    (req[s].pc = "chainWrite" /\ req[s].ver = Null /\ req'[s].pc = "done")
      => /\ Cardinality(EntriesOf(cache', req[s].h)) = 1
         /\ \A e \in EntriesOf(cache', req[s].h) :
              e.result = ResNeg /\ e.expiresAt = now + CacheTtlMs

UncachedPath(r) ==
  IF r.regKind # "none" THEN "store"
  ELSE IF r.verKind = "null" THEN "chain-neg" ELSE "chain-pos"

\* C8: a live cache entry without a result payload, or whose isRegistered
\* is not a boolean, is deleted by the lookup that meets it, and the request
\* goes on to the store and the Gateway and answers 200 as a request that
\* met no cache entry does.
C8_StateSelfHealing ==
  \A s \in Slots :
    (IsDone(s) /\ req[s].cachedKind \in {"missing", "nonbool"})
      => /\ req[s].resp.status = 200
         /\ req[s].resp.success
         /\ SubSeq(req[s].steps, 1, 2) = <<"cache", "store">>
         /\ req[s].resp.path = UncachedPath(req[s])
         /\ req[s].resp.verified <=> req[s].resp.path # "chain-neg"

C8_StepCorruptDeleted ==
  \A s \in Slots :
    (req[s].pc = "cacheDelete" /\ req[s].cachedKind \in {"missing", "nonbool"}
       /\ req'[s].pc = "store")
      => /\ req[s].cached \notin cache'
         /\ EntriesOf(cache', req[s].h) = {}

\* C8: a corrupt entry is deleted and the request answered as if uncached (the state part holds in every
\* state, the step part at every step)
C8_CorruptCacheSelfHealing ==
  []C8_StateSelfHealing /\ [][C8_StepCorruptDeleted]_vars

\* both kinds of corrupt entry were met and answered past
C8_Witness ==
  \E s, u \in Slots :
    /\ IsDone(s) /\ req[s].cachedKind \in {"missing", "nonbool"}
    /\ req[s].resp.path = "chain-neg"
    /\ IsDone(u) /\ req[u].cachedKind = "none" /\ req[u].resp.path = "chain-neg"

\* C9: the cache holds at most one entry per hash, every entry verifyTweet
\* writes expires one hour after the write, and an entry a lookup returns
\* has an expiresAt strictly later than the time of the lookup.
C9_StateCache ==
  /\ \A h \in Hashes : Cardinality(EntriesOf(cache, h)) <= 1
  /\ \A s \in Slots :
       req[s].cached # NoEntry => req[s].cached.expiresAt > req[s].lookupAt

C9_StepWrite ==
  \A e \in cache' \ cache : e.expiresAt = now + CacheTtlMs

\* C9: one entry per hash, one-hour expiry on every write, no expired entry served (the state part holds in every
\* state, the step part at every step)
C9_CacheInvariant == []C9_StateCache /\ [][C9_StepWrite]_vars

\* an entry whose expiresAt equals the time of the lookup is in the
\* collection and the lookup did not return it
C9_Witness ==
  \E s \in Slots :
    /\ req[s].pc = "store"
    /\ req[s].cachedKind = "none"
    /\ \E e \in EntriesOf(cache, req[s].h) :
         e.result.kind = "pos" /\ e.expiresAt = req[s].lookupAt

\* ------------------------------------------- properties: batchVerify
BatchAnswered == batch.pc = "done"

IsFailingItem(it) == it.kind = "neither" \/ ItemThrows(it)

\* C12 (as stated): for a body of 1 to 10 items, whatever one item holds,
\* the answer is 200 with one result per item; a failing item (neither
\* content nor hash, or a non-string value) is reported as
\* {success: false, verified: false, error}, the one with neither as
\* 'Either content or hash required', and every other item's result is
\* the one it gets when verified alone.
C12_BatchIsolation ==
  (BatchAnswered /\ ~BatchBodyRejected(batch.body))
    => /\ batch.resp.status = 200
       /\ Len(batch.resp.results) = Len(batch.body.items)
       /\ \A i \in 1..Len(batch.body.items) :
            LET it == batch.body.items[i]
                r == batch.resp.results[i]
            IN IF IsFailingItem(it)
               THEN /\ ~r.success /\ ~r.verified /\ r.error # NoStr
                    /\ it.kind = "neither" => r = NeitherResult
               ELSE r = ItemResult(ItemHashHex(it), batch.answers[i])

\* C13 (as stated): a body whose items is missing, not an array, empty or
\* longer than 10 is answered 400 with no hashing and no Gateway call; any
\* other body is answered with a results list as long as items, results[i]
\* being the outcome of items[i].
C13_BatchGuard ==
  BatchAnswered =>
    IF BatchBodyRejected(batch.body)
    THEN batch.resp.status = 400 /\ batch.hashCalls = 0 /\ batch.gwCalls = 0
    ELSE /\ Len(batch.resp.results) = Len(batch.body.items)
         /\ \A i \in 1..Len(batch.body.items) :
              \/ batch.resp.results[i].hash = ItemHashHex(batch.body.items[i])
              \/ /\ batch.body.items[i].kind = "neither"
                 /\ batch.resp.results[i] = NeitherResult

\* the hash is in one of the content-registries
OnChain(h) == \E v \in VersionSet : chain[v][h] # NoRec

C18_StepStatus ==
  \A h \in Hashes :
    /\ RegsOf(regs, h) # {} => RegsOf(regs', h) # {}
    /\ Cardinality(RegsOf(regs', h)) <= 1
    /\ RegsOf(regs, h) = {} => \A n \in RegsOf(regs', h) : n.status = "pending"
    /\ \A r \in RegsOf(regs, h), n \in RegsOf(regs', h) :
         /\ r.status = "confirmed" => n.status = "confirmed"
         /\ r.status # n.status
              => /\ r.status = "pending"
                 /\ n.status \in {"confirmed", "failed"}
                 /\ n.status = "confirmed" => (OnChain(h) /\ regOps' = regOps + 1)

\* C18: every Registration secureRegisterTweet creates is 'pending'; the
\* status changes only pending to confirmed (by confirmRegistration, and only
\* when the Gateway finds the hash on chain) or pending to failed; a
\* 'confirmed' Registration never changes status again, and no Registration
\* is deleted.
C18_StatusMachine == [][C18_StepStatus]_vars

\* a Registration created pending has been confirmed
C18_Witness ==
  /\ regOps = 2
  /\ \E r \in regs : r.status = "confirmed" /\ r.txId = "tx1" /\ OnChain(r.contentHash)

\* ------------------------------------------- properties (BNS Validator)
\* the step is a loop turn whose lookup and store update both succeeded
IsValidatedTurn ==
  /\ sweep.pc = "loop"
  /\ sweep'.i = sweep.i + 1
  /\ sweep'.log[Len(sweep'.log)].lookup = "ok"
  /\ sweep'.log[Len(sweep'.log)].counted

\* C14: a sweep step on a selected Registration with name n and wallet w sets
\* the status from the registry's list L of w: n in L gives 'valid'; n not in
\* L and L non-empty gives 'transferred', with the current owner populated and
\* the transfer time stamped; L empty gives 'no-longer-owned'; the owner and
\* transfer-time fields are written only in the transferred case.
C14_SweepStatus ==
  [][IsValidatedTurn =>
       LET id == sweep.queue[sweep.i]
           L == registry[bnsDocs[id].authorWallet]
           n == bnsDocs[id].bnsName
           d == bnsDocs[id]
           e == bnsDocs'[id]
       IN /\ Includes(L, n) => e.bnsStatus = "valid"
          /\ (~Includes(L, n) /\ Len(L) > 0)
               => /\ e.bnsStatus = "transferred"
                  /\ e.currentBnsOwner # NoStr
                  /\ e.bnsTransferredAt = now
          /\ Len(L) = 0 => e.bnsStatus = "no-longer-owned"
          /\ e.bnsStatus # "transferred"
               => /\ e.currentBnsOwner = d.currentBnsOwner
                  /\ e.bnsTransferredAt = d.bnsTransferredAt
          /\ \A other \in DocIds \ {id} : bnsDocs'[other] = bnsDocs[other]]_vars

\* a sweep has found a transfer, an unowned name and a valid name
C14_Witness ==
  /\ bnsDocs[1] # NoDoc /\ bnsDocs[2] # NoDoc
  /\ bnsDocs[1].bnsStatus = "transferred"
  /\ bnsDocs[1].currentBnsOwner = "BOB.BTC"
  /\ bnsDocs[1].bnsTransferredAt = ValidationIntervalMs
  /\ bnsDocs[2].bnsStatus = "no-longer-owned"
  /\ bnsDocs[2].currentBnsOwner = NoStr
  /\ \E i \in 1..Len(sweep.log) : sweep.log[i].lookup = "ok" /\ sweep.log[i].counted

FailedLookups == {"throw", "non2xx"}

\* C15: a record whose registry lookup fails (exception or non-2xx) is
\* skipped: its status stays as it was and it is not counted, and the rest of
\* the batch goes on; a sweep whose lookups all fail reports zero validated
\* records and changes no status.
C15_LookupFailureSkips ==
  /\ \A i \in 1..Len(sweep.log) :
       sweep.log[i].lookup \in FailedLookups
         => /\ sweep.log[i].after = sweep.log[i].before
            /\ ~sweep.log[i].counted
  /\ (/\ sweep.pc = "done"
      /\ Len(sweep.log) > 0
      /\ \A i \in 1..Len(sweep.log) : sweep.log[i].lookup \in FailedLookups)
       => sweep.result = 0
  /\ sweep.pc = "done" => Len(sweep.log) = Len(sweep.queue)

\* C16: the binding status starts 'valid' at creation and, once it has been
\* 'transferred' or 'no-longer-owned', nothing sets it back to 'valid'; only
\* the sweep writes it.
C16_NeverBackToValid ==
  /\ \A id \in DocIds :
       (bnsDocs[id] # NoDoc /\ bnsDocs[id].wasInvalid) => bnsDocs[id].bnsStatus # "valid"
  /\ \A id \in DocIds :
       (bnsDocs[id] # NoDoc /\ bnsDocs[id].lastBnsValidation = Unset)
         => bnsDocs[id].bnsStatus = "valid"

\* ------------------------------------------------- properties (cron)
IsCronCall(op) == cron'.calls = cron.calls + 1 /\ cron'.lastCall.op = op

\* the recurring timers are exactly the one validationTimer holds
C17_StateOneTimer ==
  /\ Cardinality(cron.intervals) <= 1
  /\ cron.validationTimer = 0 <=> cron.intervals = {}
  /\ cron.validationTimer # 0 => cron.intervals = {cron.validationTimer}

C17_StepStartStop ==
  /\ (IsCronCall("start") /\ cron.intervals # {})
       => /\ cron'.intervals = cron.intervals
          /\ cron'.timeouts = cron.timeouts
          /\ cron'.validationTimer = cron.validationTimer
          /\ ~cron'.lastCall.raised
  /\ IsCronCall("stop")
       => /\ cron'.intervals = {}
          /\ cron'.validationTimer = 0
          /\ ~cron'.lastCall.raised
  /\ (IsCronCall("stop") /\ cron.intervals = {})
       => /\ cron'.timeouts = cron.timeouts
          /\ cron'.nextHandle = cron.nextHandle

\* C17: after any sequence of startBNSValidationCron / stopBNSValidationCron
\* calls at most one recurring validation timer exists: start while a timer
\* is active schedules nothing new and raises no error; stop clears the timer
\* and resets the handle; stop with no active timer is a no-op.
C17_CronSingleton == []C17_StateOneTimer /\ [][C17_StepStartStop]_vars

\* a start found the timer of a second start still active, after a stop
C17_Witness ==
  /\ cron.calls = 4
  /\ cron.lastCall = [op |-> "start", scheduled |-> FALSE, raised |-> FALSE]
  /\ cron.validationTimer = 2
  /\ cron.intervals = {2}

\* --------------------------------- properties (secureRegisterTweet)
Answered200(h) == {s \in Slots : sreg[s].pc = "done" /\ sreg[s].h = h /\ sreg[s].status = 200}

Creators(h) == {s \in Slots : sreg[s].h = h /\ sreg[s].created}

\* C19: contentHash is unique across Registrations in every reachable state:
\* for any interleaving of concurrent secureRegisterTweet requests for the
\* same normalized content, from the same or different wallets, at most one
\* Registration of the hash exists, at most one request is answered with
\* success, and the user counters are incremented only for the request that
\* created the document.
C19_UniqueContentHash ==
  \A h \in Hashes :
    /\ Cardinality(RegsOf(regs, h)) <= 1
    /\ Cardinality(Creators(h)) <= 1
    /\ Cardinality(Answered200(h)) <= 1
    /\ \A s \in Slots :
         /\ sreg[s].incs > 0 => sreg[s].created
         /\ sreg[s].status = 200 => sreg[s].created
    /\ \A w \in Wallets :
         /\ users[w].totalRegistrations
              = Cardinality({s \in Creators(h) : sreg[s].incs > 0 /\ ToUpper(sreg[s].w) = w})
         /\ users[w].pendingRegistrations = users[w].totalRegistrations

\* two requests of different wallets both passed the checks before either
\* saved; one created the document and was answered 200, the other got 500
C19_Witness ==
  /\ sreg[1].pc = "done" /\ sreg[2].pc = "done"
  /\ sreg[1].w # sreg[2].w
  /\ sreg[1].h = sreg[2].h
  /\ {sreg[1].status, sreg[2].status} = {200, 500}
  /\ Cardinality(regs) = 1

\* ----------------------------------------- properties (HashService)
\* the words of a string: its maximal runs of non-whitespace characters
RECURSIVE Words(_, _)
Words(s, cur) ==
  IF s = <<>> THEN (IF cur = <<>> THEN <<>> ELSE <<cur>>)
  ELSE IF Head(s) \in WhiteSpace
       THEN (IF cur = <<>> THEN <<>> ELSE <<cur>>) \o Words(Tail(s), <<>>)
       ELSE Words(Tail(s), Append(cur, Head(s)))

\* no whitespace at either end, and inside only single spaces
IsClean(s) ==
  /\ s # <<>> => (s[1] \notin WhiteSpace /\ s[Len(s)] \notin WhiteSpace)
  /\ \A i \in 1..Len(s) : s[i] \in WhiteSpace => (s[i] = " " /\ s[i + 1] \notin WhiteSpace)

FlagAndAuthor(resp) ==
  [verified |-> resp.verified,
   author |-> IF resp.data = NoData THEN NoStr ELSE resp.data.author]

FormAnswers(form) ==
  {FlagAndAuthor(o.resp) : o \in FormOutcomes(form, cache, regs, chain, network, now)}

\* C21: in the same system state the three input forms of one hash,
\* { tweetContent: c }, { hash: hex } and { hash: '0x' + hex }, give the same
\* verified flag and the same author.
C21_FormIndependence ==
  \A form \in Forms : FormAnswers(form) = FormAnswers("content")

\* ------------------------------------------ properties (contracts)
IsRegisterCall == ct.last.fn \in {"register-content", "register-content-with-bns"}

IsDuplicateCall == IsRegisterCall /\ ct.last.pre.registry[ct.last.h] # NoRec

\* what the first successful registration stored is what verify-content
\* returns, and hash-exists is true for it
FirstRecordKept ==
  \A h \in CtHashes :
    ct.first[h] # NoRec
      => /\ VerifyContent(ct.v, ct.st, h) = Ok(ct.first[h])
         /\ HashExists(ct.st, h)

\* C22 as stated: a register-content / register-content-with-bns call with a
\* hash already in content-registry returns (err u100) and changes nothing;
\* the record of the first successful registration is what verify-content
\* returns in every later state, and hash-exists stays true.
C22_DuplicateErr100 ==
  /\ IsDuplicateCall => (ct.last.result = Err(100) /\ ct.st = ct.last.pre)
  /\ FirstRecordKept

\* C22 amended: such a call fails and changes nothing; the error is u100
\* unless an earlier assertion of v3 fails first: u103 while the contract is
\* paused, u102 for an invalid content type; the first record is kept.
C22_DuplicateRejected ==
  /\ IsDuplicateCall
       => /\ ct.st = ct.last.pre
          /\ ct.last.result =
               Err(IF ct.v = "v3" /\ ~ct.last.pre.active THEN 103
                   ELSE IF ct.v = "v3" /\ ~IsValidContentType(ct.last.contentType) THEN 102
                   ELSE 100)
  /\ FirstRecordKept

\* a second registration of hA by another sender, in a later block, got u100
C22_Witness ==
  /\ IsDuplicateCall
  /\ ct.last.result = Err(100)
  /\ ct.last.h = "hA"
  /\ ct.last.sender # ct.first["hA"].author
  /\ ct.last.height > ct.first["hA"].blockHeight
  /\ ct.st.registry["hA"] = ct.first["hA"]

Registered == {h \in CtHashes : ct.st.registry[h] # NoRec}

\* C23: total-registrations / registration-count equals the number of
\* entries of content-registry; the k-th successful registration gets
\* registration-id k, so the ids are 1..n without gaps or repeats; a failed
\* registration leaves the counter unchanged.
C23_CounterAndIds ==
  ct.v # "none"
    => /\ ct.st.total = Cardinality(Registered)
       /\ ct.st.total = ct.okCount
       /\ {ct.st.registry[h].registrationId : h \in Registered} = 1..ct.st.total
       /\ \A g, h \in Registered :
            ct.st.registry[g].registrationId = ct.st.registry[h].registrationId => g = h
       /\ (IsRegisterCall /\ ct.last.result.kind = "ok")
            => /\ ct.last.result.value = ct.okCount
               /\ ct.st.registry[ct.last.h].registrationId = ct.okCount
               /\ ct.st.total = ct.last.pre.total + 1
       /\ (IsRegisterCall /\ ct.last.result.kind = "err")
            => ct.st.total = ct.last.pre.total

\* two registrations got the ids 1 and 2, then a third call failed
C23_Witness ==
  /\ ct.st.total = 2
  /\ Cardinality(Registered) = 2
  /\ IsRegisterCall
  /\ ct.last.result.kind = "err"
  /\ ct.calls = 3

\* C24: toggle-contract-status succeeds only for the contract owner; any
\* other caller gets (err u103) and contract-active is unchanged; while
\* contract-active is false every registration call returns (err u103) and
\* changes no state; after the owner toggles it back, registration of the
\* same hash succeeds.
C24_PauseControl ==
  ct.v = "v3"
    => /\ ct.last.fn = "toggle-contract-status"
            => IF ct.last.sender = ContractOwner
               THEN /\ ct.last.result = Ok(~ct.last.pre.active)
                    /\ ct.st = [ct.last.pre EXCEPT !.active = ~@]
               ELSE /\ ct.last.result = Err(103)
                    /\ ct.st = ct.last.pre
       /\ (IsRegisterCall /\ ~ct.last.pre.active)
            => /\ ct.last.result = Err(103)
               /\ ct.st = ct.last.pre
       /\ (/\ IsRegisterCall
           /\ ct.last.pre.active
           /\ IsValidHash(ct.last.h)
           /\ IsValidContentType(ct.last.contentType)
           /\ ct.last.pre.registry[ct.last.h] = NoRec)
            => /\ ct.last.result.kind = "ok"
               /\ ct.st.registry[ct.last.h] # NoRec

\* a hash refused while the contract was paused was registered after the
\* owner had toggled the contract back
C24_Witness ==
  /\ ct.v = "v3"
  /\ IsRegisterCall
  /\ ct.last.result.kind = "ok"
  /\ ct.last.h \in ct.pausedRejects
  /\ ct.st.active

ExtStep(t) == \E fate \in CallFates : ExtSettle(t, fate)

NextExt ==
  \/ \E t \in ExtTasks, n \in 1..MaxExtCalls, fate \in CallFates : ExtStart(t, n, fate)
  \/ \E t \in ExtTasks : ExtStep(t)

\* the event loop runs every settled promise's continuation
SpecExt == InitOne /\ [][NextExt]_vars /\ \A t \in ExtTasks : WF_vars(ExtStep(t))

NextAuth ==
  \/ \E dep \in Deployments : AuthBoot(dep)
  \/ \E a \in AuthWallets : getChallenge(a)
  \/ \E a \in AuthWallets, sig \in Signatures, m \in Messages, k \in Keys : loginWithWallet(a, sig, m, k)
  \/ loginMissingFields
  \/ \E a \in AuthWallets : createSession(a)
  \/ \E id \in SessionIds, q \in AuthWallets \cup {NoAddr} : GetSession(id, q)
  \/ \E id \in SessionIds : DeleteSession(id)
  \/ LogoutTimerFires
  \/ \E dt \in AuthSteps : AuthTick(dt)

SpecAuth == InitOne /\ [][NextAuth]_vars

\* a timer that was set fires
SpecAuthFair == InitOne /\ [][NextAuth]_vars /\ WF_vars(LogoutTimerFires)

\* ------------------------------------------ properties (rate limiters)
\* the 429 responses of the current window
RejectedInWindow(lim, k) == rl.hits[lim][k] - rl.admitted[lim][k]

\* C25: the authentication limiter is stricter than the global limiter: for
\* one key within one 15-minute window it admits at most 10 requests, so 12
\* requests from the same key yield at least one 429.
C25_AuthLimitTen ==
  \A k \in LimiterKeys :
    /\ rl.admitted["auth"][k] <= 10
    /\ rl.hits["auth"][k] >= 12 => RejectedInWindow("auth", k) >= 1
    /\ rl.admitted["auth"][k] <= GlobalMax

\* ------------------------------------- properties (concurrent requests)
\* two requests were made and both have answered; the second arrived while
\* the first was being handled (it took the second slot)
BothDone == started = Cardinality(Slots) /\ \A s \in Slots : req[s].pc = "done"

ReachedChain(s) == \E i \in 1..Len(req[s].steps) : req[s].steps[i] = "chain"

VerificationsOf(rs, h) == {r.verifications : r \in RegsOf(rs, h)}

\* the requests for h that answer verified: true from the cache fast path or
\* the store step in this step
AnswersNow(h) ==
  {s \in Slots : /\ req[s].pc # "done" /\ req'[s].pc = "done"
                 /\ req[s].h = h
                 /\ req'[s].resp.verified
                 /\ req'[s].resp.path \in {"cache", "store"}}

\* C27: for a hash that has a Registration, every verifyTweet request that
\* answers verified: true through the cache fast path or the store step
\* increases the Registration's analytics.verifications by exactly one, so
\* n such requests increase it by exactly n. Stated per request, over the
\* three forms of the request body.
C27_OneIncrementPerAnswer ==
  [][(/\ probe'.count = probe.count + 1
      /\ probe'.resp.verified
      /\ probe'.resp.path \in {"cache", "store"})
     => \A n \in VerificationsOf(regs, "h1") : VerificationsOf(regs', "h1") = {n + 1}]_vars

\* C27 for interleaved requests that carry the bare hexadecimal hash or the
\* content: each answer from cache or store adds one to the counter of an
\* existing Registration, and no other step changes the counter.
C27_InterleavedIncrements ==
  [][\A n \in VerificationsOf(regs, "h1") :
       VerificationsOf(regs', "h1") = {n + Cardinality(AnswersNow("h1"))}]_vars

\* ------------------------------- properties (Testnet verifyTweet)
\* the live entries of h that hold a negative answer
LiveNegatives(h) == {e \in LiveEntries(cache, h, now) : e.result.kind # "pos"}

\* C28: the Testnet verifyTweet treats a live negative cache entry as not
\* authoritative: the request deletes it and consults the store and the
\* chain, so it is not answered from the entry, and a registration
\* confirmed after the negative was cached is found by the next request.
C28_NegativeNotAuthoritative ==
  [][(probe'.count = probe.count + 1 /\ LiveNegatives("h1") # {})
     => /\ probe'.resp.path \in {"store", "chain-pos", "chain-neg"}
        /\ TestnetFindReg(regs, "h1") # {} => probe'.resp.verified]_vars

\* ------------------------- properties (sweeps over a large collection)
PopBegins == pop.pc = "idle" /\ pop'.pc = "loop"
Selected(q) == {q[k] : k \in 1..Len(q)}
PopTurn == pop.pc = "loop" /\ pop'.i = pop.i + 1

\* C29: validateStaleRegistrations selects only Registrations that have a
\* binding name and whose lastBnsValidation is absent or more than 24 hours
\* old, at most 100 per sweep; every record it validates gets
\* lastBnsValidation = the processing time whatever the classification, no
\* other record changes, and so a record validated less than 24 hours (or
\* exactly 24 hours) before a sweep starts is not selected by it.
C29_StaleSweep ==
  [][/\ PopBegins =>
         /\ Len(pop'.queue) <= 100
         /\ \A k \in 1..Len(pop'.queue) :
              LET d == pop'.queue[k]
              IN /\ HasBnsName(d)
                 /\ pop.age[d] = Unset \/ pop.age[d] > 86400000
         /\ \A d \in Positions :
              (pop.age[d] # Unset /\ pop.age[d] <= 86400000) => d \notin Selected(pop'.queue)
         /\ pop'.age = pop.age
     /\ PopTurn =>
         LET d == pop.queue[pop.i]
         IN /\ pop'.validatedCount = pop.validatedCount + 1 => pop'.age[d] = 0
            /\ pop'.validatedCount = pop.validatedCount => pop'.age[d] = pop.age[d]
            /\ \A e \in Positions \ {d} : pop'.age[e] = pop.age[e]]_vars

\* a sweep of 100 records is running while other stale records are left
\* out; its first record has been validated as transferred, and a record
\* validated half a day ago was not selected
C29_Witness ==
  /\ pop.pc = "loop"
  /\ Len(pop.queue) = 100
  /\ pop.i > 1
  /\ pop.age[pop.queue[1]] = 0
  /\ pop.status = "transferred"
  /\ \E d \in Positions \ Selected(pop.queue) : pop.age[d] = HalfDayMs
  /\ PopStale(pop.age) \ Selected(pop.queue) # {}

\* C30: with the cron running, sweeps recurring and every lookup and store
\* update succeeding, every Registration with a binding name is eventually
\* validated (its lastBnsValidation is set), also when more than 100 are
\* stale: no record is left out forever.
C30_AllEventuallyValidated ==
  <>(\A d \in Positions : HasBnsName(d) => pop.age[d] # Unset)

\* ------------------------------------------ properties (outbound calls)
\* C31: every outbound call to the ledger RPC and to the name registry is
\* bounded by a timeout, so a verifyTweet request and a sweep that wait on a
\* call eventually complete even when the call is never answered
C31_CallsBounded ==
  \A t \in ExtTasks : (ext[t].pc = "awaiting") ~> (ext[t].pc = "done")

\* the part of C31 that the code keeps: a task stuck on a silent dependency
\* holds back no other task, later requests and later runs still start and
\* still end when their own calls settle
C31_OthersNotBlocked ==
  \A t \in ExtTasks, u \in ExtTasks :
    (u # t /\ ext[t].pc = "awaiting" /\ ext[t].fate = "never")
      => /\ ext[u].pc = "idle" => ENABLED ExtStart(u, 1, "responds")
         /\ (ext[u].pc = "awaiting" /\ ext[u].fate # "never") => ENABLED ExtStep(u)

\* a request waits on a call that is never answered while a later request
\* has been served
C31_Witness ==
  /\ ext["verify1"].pc = "awaiting"
  /\ ext["verify1"].fate = "never"
  /\ ext["verify2"].pc = "done"

\* ------------------------------------------------ properties (sessions)
\* a request was answered by validateSession in this step
ValidateStep == auth'.last.op = "validateSession" /\ auth' # auth

\* the session the validated id names in the answering controller's map,
\* before the step and after it
StoredBefore == SessionsOf(auth.sessions[auth'.last.c], auth'.last.id)

StoredAfter == SessionsOf(auth'.sessions[auth'.last.c], auth'.last.id)

\* C32: validateSession answers valid only for a session that is stored,
\* active and not expired (now <= expiresAt, four hours after its creation);
\* validating an expired session removes it and answers 401; after a
\* successful logout no validateSession for that id succeeds (401 while the
\* session is still stored, 404 once it is deleted), and the session is
\* eventually removed from the map
C32_SessionValidity ==
  /\ [][ValidateStep =>
          /\ auth'.last.valid =>
                \E s \in StoredBefore :
                  /\ s.active
                  /\ auth.t <= s.expiresAt
                  /\ s.expiresAt = s.createdAt + SessionExpirationMs
          /\ (\E s \in StoredBefore : auth.t > s.expiresAt) =>
                /\ auth'.last.status = 401
                /\ StoredAfter = {}
          /\ auth'.last.id \in auth.loggedOut =>
                /\ ~auth'.last.valid
                /\ auth'.last.status = IF StoredBefore # {} THEN 401 ELSE 404]_vars
  /\ \A id \in SessionIds :
        (id \in auth.loggedOut) ~> (\A c \in Controllers : SessionsOf(auth.sessions[c], id) = {})

\* a session that was logged out and then deleted by the timer was asked
\* for again and not found
C32_Witness ==
  /\ auth.last.op = "validateSession"
  /\ auth.last.id \in auth.loggedOut
  /\ auth.last.status = 404
  /\ auth.timers = {}

\* a session was created by loginWithWallet in this step
LoginCreates ==
  /\ auth'.last.op = "loginWithWallet"
  /\ auth'.last.status = 200
  /\ auth'.nextId # auth.nextId

\* C33: challenges are single-use and time-boxed: loginWithWallet creates
\* a session only if a stored challenge with the same address and exactly
\* the same message exists and has not expired; the matched challenge is
\* removed when it is matched, so each challenge yields at most one session
\* and an expired challenge yields none
C33_ChallengeSingleUse ==
  [][/\ (\E s \in auth'.sessions["wallet"] : SessionsOf(auth.sessions["wallet"], s.id) = {})
           => LoginCreates
     /\ LoginCreates =>
           \E ch \in auth.challenges :
             /\ ch.address = auth'.last.f.wallet
             /\ ch.msg = auth'.last.f.msg
             /\ auth.t <= ch.expiresAt
             /\ ch \notin auth'.challenges
     /\ \A ch \in auth.challenges :
           (auth'.last.op = "loginWithWallet" /\ auth.t > ch.expiresAt /\ ch \notin auth'.challenges)
             => auth'.nextId = auth.nextId
     /\ \A m \in Messages : auth'.minted[m] <= 1]_vars

\* a challenge yielded a session, is gone, and a later login was refused
C33_Witness ==
  /\ \E m \in Messages : auth.minted[m] = 1
  /\ auth.challenges = {}
  /\ auth.last.op = "loginWithWallet"
  /\ auth.last.status = 401

\* C34: loginWithWallet creates a session for an address only if the
\* signature is a valid signature of the challenge message by the key of the
\* supplied publicKey and that publicKey derives the address
C34_SignatureVerified ==
  (auth.last.op = "loginWithWallet" /\ auth.last.status = 200)
    => /\ verifyMessageSignature(auth.last.f.msg, auth.last.f.key, auth.last.f.sig)
       /\ \E v \in Deployments : publicKeyToAddress(v, auth.last.f.key) = auth.last.f.wallet

\* the half of C34 that the code keeps: the publicKey derives the address
C34_KeyDerivesAddress ==
  (auth.last.op = "loginWithWallet" /\ auth.last.status = 200)
    => \E v \in Deployments : publicKeyToAddress(v, auth.last.f.key) = auth.last.f.wallet

\* C39: a sessionId returned by a successful session-creating endpoint
\* (POST /auth/login/wallet or POST /auth/session) is accepted by the same
\* deployment's GET /auth/session/:sessionId at any time before its expiry
\* or logout (a walletAddress query that names another wallet aside)
C39_SessionRoundTrip ==
  (/\ auth.last.op = "validateSession"
   /\ auth.last.id \notin auth.loggedOut
   /\ \E i \in auth.issued : i.id = auth.last.id /\ auth.t <= i.expiresAt)
    => auth.last.status \in {200, 403}

\* what the routes do give: the id is accepted when the controller that
\* created the session is the one bound to GET /auth/session/:sessionId
C39_SameControllerRoundTrip ==
  (/\ auth.last.op = "validateSession"
   /\ auth.last.id \notin auth.loggedOut
   /\ \E i \in auth.issued :
        i.id = auth.last.id /\ auth.t <= i.expiresAt /\ i.c = auth.last.c)
    => auth.last.status \in {200, 403}

\* ----------------------------------------- properties (stopping the cron)
\* C37: stopping the cron cancels all scheduled work: after
\* stopBNSValidationCron no timer starts a sweep until
\* startBNSValidationCron is called again, and after any sequence of start
\* and stop calls at most one start-up run and one recurring timer are
\* pending
C37_StopCancelsAll ==
  /\ [][sweep'.sweeps # sweep.sweeps => cron.validationTimer # 0]_vars
  /\ [](cron.timeouts <= 1 /\ Cardinality(cron.intervals) <= 1)

\* the part of C37 that the code keeps: the recurring timer starts no sweep
\* while the cron is stopped
C37_IntervalCancelled ==
  [][(sweep'.sweeps # sweep.sweeps /\ cron' = cron) => cron.validationTimer # 0]_vars

\* ------------------------------- properties (soundness, monotonicity)
\* some contract version holds a record of h
OnSomeContract(h) == \E v \in VersionSet : chain[v][h] # NoRec

\* C35: soundness: a verifyTweet answer verified: true for h implies that h
\* is registered in at least one contract version at or before the response
\* (records are never removed from a contract), so no sequence of API
\* requests alone makes verifyTweet report verified: true
C35_Soundness ==
  \A s \in Slots :
    (req[s].pc = "done" /\ req[s].resp.verified) => OnSomeContract(req[s].h)

\* what does hold: a positive answer given from the contract query itself
\* is sound
C35_ChainAnswersSound ==
  \A s \in Slots :
    (req[s].pc = "done" /\ req[s].resp.verified /\ req[s].resp.path = "chain-pos")
      => OnSomeContract(req[s].h)

\* a request answered in this step, after an answered request
NextProbe == probe'.count = probe.count + 1 /\ probe.count > 0

\* the answer given in this step is a failure: a 500, or not found from the
\* Gateway although a contract holds the hash
ProbeFailed ==
  \/ probe'.resp.status # 200
  \/ probe'.resp = ChainNegativeResponse /\ OnSomeContract("h1")

\* C36: monotonicity: with registrations never removed and no Gateway or
\* store failure, once a verifyTweet for h has answered verified: true every
\* verifyTweet for h started afterwards answers verified: true as well
C36_Monotonicity ==
  [][(NextProbe /\ probe.resp.verified /\ ~ProbeFailed) => probe'.resp.verified]_vars

\* what does hold: the same, for requests that give the content or the bare
\* hex hash
C36_MonotoneBareForms ==
  [][(NextProbe /\ probe.resp.verified /\ ~ProbeFailed /\ probe'.form \in {"content", "hex"})
       => probe'.resp.verified]_vars

\* ------------------------------------- properties (User counters)
\* no registration request is between two of its awaits
SrQuiet == \A s \in Slots : sreg[s].pc \in {"idle", "done"}

RegsOfWallet(w, status) == {r \in regs : r.authorWallet = w /\ r.status = status}

\* C38: the User counters agree with the Registration collection: after any
\* sequence of secureRegisterTweet and confirmRegistration requests (a
\* repeated confirmation included), for every wallet
\* stats.pendingRegistrations is never negative and equals the number of its
\* pending Registrations, and stats.confirmedRegistrations equals the number
\* of its confirmed ones
C38_StatsConsistent ==
  SrQuiet =>
    \A w \in Wallets :
      /\ users[w].pendingRegistrations >= 0
      /\ users[w].pendingRegistrations = Cardinality(RegsOfWallet(w, "pending"))
      /\ users[w].confirmedRegistrations = Cardinality(RegsOfWallet(w, "confirmed"))

\* what does hold: the counters agree as long as no content was confirmed twice
C38_ConsistentUntilReconfirmed ==
  (SrQuiet /\ \A w \in Wallets : users[w].confirmedRegistrations <= 1 /\ users[w].pendingRegistrations >= 0)
    => \A w \in Wallets :
         /\ users[w].pendingRegistrations = Cardinality(RegsOfWallet(w, "pending"))
         /\ users[w].confirmedRegistrations = Cardinality(RegsOfWallet(w, "confirmed"))

\* a secureRegisterTweet request answered in this step with a rejection
SrRejected(s) ==
  /\ sreg[s].pc # "done"
  /\ sreg'[s].pc = "done"
  /\ sreg'[s].status \in {400, 404, 409}

\* a confirmRegistration request answered in this step with a rejection
CrRejected == cr'.calls = cr.calls + 1 /\ cr'.status \in {400, 404, 409}

\* C40: rejected registration requests leave the persisted state unchanged:
\* when secureRegisterTweet or confirmRegistration answers 400, 404 or 409,
\* the request has created or modified no Registration and no User document
\* and has made no IPFS upload
C40_RejectedLeavesState ==
  [][/\ \A s \in Slots :
          SrRejected(s) =>
            /\ ~sreg'[s].created
            /\ sreg'[s].incs = 0
            /\ ~sreg'[s].upserted
            /\ ~sreg'[s].uploaded
            /\ regs' = regs
            /\ users' = users
     /\ CrRejected => (regs' = regs /\ users' = users)]_vars

\* a registration was refused with 409 for content that is on chain, after
\* another request had stored documents, and a confirmation was refused
C40_Witness ==
  /\ \E s \in Slots : sreg[s].pc = "done" /\ sreg[s].status = 409
  /\ regs # {}
  /\ cr.status = 404

====
